---- MODULE Spec2Model ----
(***************************************************************************)
(* rjq: an interactive jq-style explorer of one JSON document.             *)
(*                                                                         *)
(* The module models                                                       *)
(*   - AppState (src/src/app/state.rs): input, exit, last_error and        *)
(*     scroll_offset with their mutators;                                  *)
(*   - QueryHistory (src/src/history/mod.rs): record_query, the score,     *)
(*     cleanup_old_entries and get_suggestions;                            *)
(*   - CachedQueryExecutor over JaqQueryExecutor (src/src/query);          *)
(*   - App and the dispatcher update (src/src/app/mod.rs,                  *)
(*     src/src/ui/events.rs).                                              *)
(*                                                                         *)
(* Strings are sequences of one-character strings; a character carries its *)
(* UTF-8 width because String::len counts bytes.  Time is counted in whole *)
(* days, the unit in which calculate_time_decay decays by a factor of e.   *)
(***************************************************************************)
EXTENDS Integers, Sequences, FiniteSets, TLC

VARIABLES
    input,          \* AppState.input
    exit,           \* AppState.exit
    last_error,     \* AppState.last_error ("none" or an error kind)
    scroll_offset,  \* AppState.scroll_offset
    visible_height, \* AppConfig.visible_height
    app_data,       \* App.data: the document the session queries
    entries,        \* QueryHistory.entries: query text -> QueryEntry
    max_entries,    \* QueryHistory.max_entries
    now,            \* SystemTime::now(), in days
    hist,           \* observer of the history: what the last record_query did
    sugg,           \* the last get_suggestions call and what it returned
    cache,          \* InMemoryQueryCache.cache: key -> Vec<Value>
    spy,            \* the wrapped executor seen from outside: invocations per
                    \* (data, query), and the first result it gave for each
    last_exec,      \* the last CachedQueryExecutor::execute call and its outcome
    cells,          \* the RefCell<C> of each stacked CachedQueryExecutor: its
                    \* borrow state and the map of the cache in it
    frames,         \* the execute calls in progress, outermost first, each at
                    \* its statement
    sc,             \* observer of the calls made on an AppState: the scroll calls
                    \* on a bare one, the dispatched actions of a session
    pc,             \* App::run: the statement the loop is at
    key_event,      \* the event event::read returned, until it is handled
    view            \* observer of what was computed for display: the last frame
                    \* drawn, content generated or key mapped

vars == <<input, exit, last_error, scroll_offset, visible_height, app_data,
          entries,
          max_entries, now, hist, sugg, cache, spy, last_exec, cells, frames, sc,
          pc, key_event, view>>

sessionVars == <<input, exit, last_error, visible_height, app_data>>
histVars    == <<entries, max_entries, now, hist, sugg>>
borrowVars  == <<cells, frames>>
cacheVars   == <<cache, spy, last_exec, borrowVars>>
loopVars    == <<pc, key_event, view>>

(***************************************************************************)
(* Bounds of the model.                                                    *)
(***************************************************************************)
MaxLines == 10      \* largest total_lines / visible_height handed to the scroll calls
MaxCalls == 10      \* longest run of scroll_down_bounded calls that is counted
MaxInner == 2       \* invocations of the wrapped executor per (data, query)
MaxEntries == 2     \* largest max_entries a history is built with
MaxCount == 2       \* record_query calls per query text
MaxTime == 1        \* days the clock runs
IdleDays == 7       \* days of one long pause (the decay term is then 0)

DefaultMaxEntries == 100    \* QueryHistory::default()

EmptyMap == [k \in {} |-> 0]

Min(a, b) == IF a <= b THEN a ELSE b
Max(a, b) == IF a >= b THEN a ELSE b

(***************************************************************************)
(* AppState: the scroll mutators (src/src/app/state.rs).                   *)
(***************************************************************************)
\* usize::saturating_sub
saturating_sub(a, b) == IF a >= b THEN a - b ELSE 0

\* mutant: the guard `scroll_offset > 0` is dropped
scroll_up_unguarded(offset) == offset - 1

scroll_up(offset) == IF offset > 0 THEN offset - 1 ELSE offset

\* mutant: `<=` in place of `<`, one step past max_scroll
scroll_down_off_by_one(offset, total_lines, height) ==
    LET max_scroll == saturating_sub(total_lines, height)
    IN  IF offset <= max_scroll THEN offset + 1 ELSE offset

scroll_down_bounded(offset, total_lines, height) ==
    LET max_scroll == saturating_sub(total_lines, height)
    IN  IF offset < max_scroll THEN offset + 1 ELSE offset

reset_scroll == 0

(***************************************************************************)
(* Strings.  str.len() is the UTF-8 byte length, str.is_empty() tests it   *)
(* against 0, trim() strips the white space at both ends.                  *)
(***************************************************************************)
utf8_len(c) == IF c = "é" THEN 2 ELSE IF c = "€" THEN 3 ELSE IF c = "U+1F600" THEN 4 ELSE 1

RECURSIVE len(_)
len(s) == IF s = <<>> THEN 0 ELSE utf8_len(Head(s)) + len(Tail(s))

is_empty(s) == len(s) = 0

is_whitespace(c) == c = " "

RECURSIVE trim_start(_)
trim_start(s) ==
    IF s # <<>> /\ is_whitespace(Head(s)) THEN trim_start(Tail(s)) ELSE s

RECURSIVE trim_end(_)
trim_end(s) ==
    IF s # <<>> /\ is_whitespace(s[Len(s)])
    THEN trim_end(SubSeq(s, 1, Len(s) - 1))
    ELSE s

trim(s) == trim_end(trim_start(s))

\* mutant: the prefix may occur anywhere in the text
starts_with_anywhere(s, prefix) ==
    \E k \in 0..(Len(s) - Len(prefix)) : SubSeq(s, k + 1, k + Len(prefix)) = prefix

starts_with(s, prefix) ==
    /\ Len(prefix) <= Len(s)
    /\ SubSeq(s, 1, Len(prefix)) = prefix

(***************************************************************************)
(* serde_json::Value, with the two serialisations the program uses: the    *)
(* compact to_string (a sequence of tokens) and to_string_pretty (a        *)
(* sequence of lines, each an indentation depth and its tokens).           *)
(***************************************************************************)
JNull == [t |-> "null", n |-> 0, keys |-> <<>>, items |-> <<>>]
JNum(k) == [t |-> "num", n |-> k, keys |-> <<>>, items |-> <<>>]
JArr(xs) == [t |-> "arr", n |-> 0, keys |-> <<>>, items |-> xs]
JObj(ks, xs) == [t |-> "obj", n |-> 0, keys |-> ks, items |-> xs]

RECURSIVE to_string(_)
to_string(v) ==
    LET RECURSIVE members(_)
        members(i) ==
            IF i > Len(v.items) THEN <<>>
            ELSE (IF i > 1 THEN <<",">> ELSE <<>>)
                 \o (IF v.t = "obj" THEN <<v.keys[i], ":">> ELSE <<>>)
                 \o to_string(v.items[i]) \o members(i + 1)
    IN  CASE v.t = "null" -> <<"null">>
          [] v.t = "num"  -> <<ToString(v.n)>>
          [] v.t = "arr"  -> <<"[">> \o members(1) \o <<"]">>
          [] v.t = "obj"  -> <<"{">> \o members(1) \o <<"}">>

RECURSIVE to_string_pretty_at(_, _)
to_string_pretty_at(v, depth) ==
    LET Line(toks) == [indent |-> depth, toks |-> toks]
        Keyed(i, ls) ==
            IF v.t = "obj"
            THEN <<[ls[1] EXCEPT !.toks = <<v.keys[i], ":">> \o @]>> \o Tail(ls)
            ELSE ls
        Comma(i, ls) ==
            IF i < Len(v.items)
            THEN SubSeq(ls, 1, Len(ls) - 1)
                 \o <<[ls[Len(ls)] EXCEPT !.toks = @ \o <<",">>]>>
            ELSE ls
        RECURSIVE members(_)
        members(i) ==
            IF i > Len(v.items) THEN <<>>
            ELSE Comma(i, Keyed(i, to_string_pretty_at(v.items[i], depth + 1)))
                 \o members(i + 1)
        open == IF v.t = "arr" THEN "[" ELSE "{"
        close == IF v.t = "arr" THEN "]" ELSE "}"
    IN  CASE v.t = "null" -> <<Line(<<"null">>)>>
          [] v.t = "num"  -> <<Line(<<ToString(v.n)>>)>>
          [] OTHER ->
                IF v.items = <<>> THEN <<Line(<<open, close>>)>>
                ELSE <<Line(<<open>>)>> \o members(1) \o <<Line(<<close>>)>>

to_string_pretty(v) == to_string_pretty_at(v, 0)

(***************************************************************************)
(* JaqQueryExecutor::execute (src/src/query/executor.rs).  The jaq runtime *)
(* is an external library; the fragment of its language the model's query  *)
(* texts can spell is written out here: `.` is the identity, `.name` the   *)
(* field access, `..` the recursive descent, white space around a filter   *)
(* is ignored, and every other text does not compile.  An item of the      *)
(* output stream that is an error is dropped by filter_map(|r| r.ok()).    *)
(***************************************************************************)
Ok(values) == [ok |-> TRUE, values |-> values, err |-> "none"]
Err(kind) == [ok |-> FALSE, values |-> <<>>, err |-> kind]

is_letter(c) == c \in {"a", "b", "n"}

RECURSIVE descend(_)
descend(v) ==
    LET RECURSIVE below(_)
        below(i) == IF i > Len(v.items) THEN <<>>
                    ELSE descend(v.items[i]) \o below(i + 1)
    IN  <<v>> \o below(1)

\* The output stream of `.name` on v: the member, null when it is missing or v
\* is null, and a single error item on any other v.
field(v, name) ==
    CASE v.t = "obj" ->
            IF \E i \in 1..Len(v.keys) : v.keys[i] = name
            THEN <<Ok(<<v.items[CHOOSE i \in 1..Len(v.keys) : v.keys[i] = name]>>)>>
            ELSE <<Ok(<<JNull>>)>>
      [] v.t = "null" -> <<Ok(<<JNull>>)>>
      [] OTHER -> <<Err("item")>>

RECURSIVE join(_)
join(s) == IF s = <<>> THEN "" ELSE Head(s) \o join(Tail(s))

\* loader.load and Compiler::compile followed by filter.run: whether the text
\* compiles and, when it does, the stream of items, each Ok(<<value>>) or an
\* error.
jaq_run(data, query) ==
    LET q == trim(query)
        Compiled(stream) == [compiled |-> TRUE, stream |-> stream]
    IN  CASE q = <<".">> -> Compiled(<<Ok(<<data>>)>>)
          [] q = <<".", ".">> ->
                Compiled([i \in 1..Len(descend(data)) |-> Ok(<<descend(data)[i]>>)])
          [] Len(q) >= 2 /\ q[1] = "." /\ \A i \in 2..Len(q) : is_letter(q[i]) ->
                Compiled(field(data, join(Tail(q))))
          [] OTHER -> [compiled |-> FALSE, stream |-> <<>>]

RECURSIVE filter_map_ok(_)
filter_map_ok(stream) ==
    IF stream = <<>> THEN <<>>
    ELSE (IF Head(stream).ok THEN Head(stream).values ELSE <<>>)
         \o filter_map_ok(Tail(stream))

execute(data, query) ==
    IF is_empty(query) THEN Err("QueryCompile")
    ELSE LET results == jaq_run(data, query)
         IN  IF ~results.compiled THEN Err("QueryCompile")
             ELSE Ok(filter_map_ok(results.stream))

(***************************************************************************)
(* JsonData::execute_query and QueryResult::format_pretty                  *)
(* (src/src/query/mod.rs), and the content App shows for its input         *)
(* (src/src/app/mod.rs).  A content is the sequence of its lines.          *)
(***************************************************************************)
Single(val) == [kind |-> "Single", values |-> <<val>>]
Multiple(vals) == [kind |-> "Multiple", values |-> vals]
Empty == [kind |-> "Empty", values |-> <<>>]

execute_query(d, query) ==
    IF is_empty(query) THEN [ok |-> FALSE, result |-> Empty, err |-> "QueryCompile"]
    ELSE LET results == jaq_run(d, query)
             values == filter_map_ok(results.stream)
         IN  IF ~results.compiled
             THEN [ok |-> FALSE, result |-> Empty, err |-> "QueryCompile"]
             ELSE [ok |-> TRUE,
                   result |-> CASE Len(values) = 0 -> Empty
                                [] Len(values) = 1 -> Single(values[1])
                                [] OTHER -> Multiple(values),
                   err |-> "none"]

\* mutant: a single value is rendered as a sequence of one
format_pretty_always_sequence(result) ==
    CASE result.kind = "Single" -> to_string_pretty(JArr(result.values))
      [] result.kind = "Multiple" -> to_string_pretty(JArr(result.values))
      [] OTHER -> <<[indent |-> 0, toks |-> <<"null">>]>>

format_pretty(result) ==
    CASE result.kind = "Single" -> to_string_pretty(result.values[1])
      [] result.kind = "Multiple" -> to_string_pretty(JArr(result.values))
      [] OTHER -> <<[indent |-> 0, toks |-> <<"null">>]>>

\* mutant: the document is shown for every failing input
generate_current_content_with_fallback(d, text) ==
    LET r == execute_query(d, text)
    IN  IF r.ok THEN format_pretty(r.result)
        ELSE to_string_pretty(d)

generate_current_content(d, text) ==
    LET r == execute_query(d, text)
    IN  IF r.ok THEN format_pretty(r.result)
        ELSE IF is_empty(text) THEN to_string_pretty(d)
        ELSE <<>>

\* generate_current_content().lines().count()
get_total_lines(d, text) == Len(generate_current_content(d, text))

(***************************************************************************)
(* CachedQueryExecutor (src/src/query/cached_executor.rs) over             *)
(* InMemoryQueryCache (src/src/query/cache.rs).                            *)
(*                                                                         *)
(* cache_key feeds data.to_string() and then query to one DefaultHasher;   *)
(* Hash for str writes the bytes followed by the byte 0xff.  The key is    *)
(* modelled as the byte stream the hasher is fed: the 64-bit SipHash of    *)
(* the stream and its hexadecimal rendering are taken to be free of        *)
(* collisions on the streams of the model.                                 *)
(***************************************************************************)
hash_str(s) == s \o <<"0xff">>

\* mutant: the query is not fed to the hasher
cache_key_without_query(data, query) == hash_str(to_string(data))

cache_key(data, query) == hash_str(to_string(data)) \o hash_str(query)

\* InMemoryQueryCache::get / set
cache_get(c, key) == IF key \in DOMAIN c THEN Ok(c[key]) ELSE Err("none")
cache_set(c, key, value) ==
    [k \in DOMAIN c \cup {key} |-> IF k = key THEN value ELSE c[k]]

\* mutant: the result of a miss is returned but not stored
cached_execute_without_set(c, data, query) ==
    LET key == cache_key(data, query)
        cached_result == cache_get(c, key)
        result == execute(data, query)
    IN  IF cached_result.ok
        THEN [outcome |-> Ok(cached_result.values), cache |-> c, invoked |-> FALSE]
        ELSE [outcome |-> result, cache |-> c, invoked |-> TRUE]

\* mutant: a failure of the wrapped executor is stored as an empty result
cached_execute_caching_errors(c, data, query) ==
    LET key == cache_key(data, query)
        cached_result == cache_get(c, key)
        result == execute(data, query)
    IN  IF cached_result.ok
        THEN [outcome |-> Ok(cached_result.values), cache |-> c, invoked |-> FALSE]
        ELSE [outcome |-> result, cache |-> cache_set(c, key, result.values),
              invoked |-> TRUE]

\* mutant: the cache keeps the result of the last miss only
cached_execute_single_slot(c, data, query) ==
    LET key == cache_key(data, query)
        cached_result == cache_get(c, key)
        result == execute(data, query)
    IN  IF cached_result.ok
        THEN [outcome |-> Ok(cached_result.values), cache |-> c, invoked |-> FALSE]
        ELSE IF ~result.ok
        THEN [outcome |-> result, cache |-> c, invoked |-> TRUE]
        ELSE [outcome |-> result, cache |-> cache_set(EmptyMap, key, result.values),
              invoked |-> TRUE]

\* CachedQueryExecutor::execute on the cache contents c: the outcome, the
\* cache contents afterwards, and whether the wrapped executor was invoked.
cached_execute(c, data, query) ==
    LET key == cache_key(data, query)
        cached_result == cache_get(c, key)
        result == execute(data, query)
    IN  IF cached_result.ok
        THEN [outcome |-> Ok(cached_result.values), cache |-> c, invoked |-> FALSE]
        ELSE IF ~result.ok
        THEN [outcome |-> result, cache |-> c, invoked |-> TRUE]
        ELSE [outcome |-> result, cache |-> cache_set(c, key, result.values),
              invoked |-> TRUE]

(***************************************************************************)
(* EnhancedApp (src/src/app/builder.rs) built with_cache(): its injected   *)
(* executor is a CachedQueryExecutor over JaqQueryExecutor.  The operators *)
(* take the cache contents c and give, with their value, the cache         *)
(* contents afterwards, whether the injected executor was called (asked)   *)
(* and whether the wrapped one was invoked.                                *)
(***************************************************************************)
\* mutant: the empty input is handed to the executor like any other
enhanced_execute_current_query_unguarded(c, d, text) ==
    LET r == cached_execute(c, d, text)
        results == r.outcome.values
    IN  [value |-> IF ~r.outcome.ok
                   THEN [ok |-> FALSE, result |-> Empty, err |-> r.outcome.err]
                   ELSE [ok |-> TRUE,
                         result |-> CASE Len(results) = 0 -> Empty
                                      [] Len(results) = 1 -> Single(results[1])
                                      [] OTHER -> Multiple(results),
                         err |-> "none"],
         cache |-> r.cache, asked |-> TRUE, invoked |-> r.invoked]

\* EnhancedApp::execute_current_query
enhanced_execute_current_query(c, d, text) ==
    IF is_empty(text)
    THEN [value |-> [ok |-> FALSE, result |-> Empty, err |-> "QueryCompile"],
          cache |-> c, asked |-> FALSE, invoked |-> FALSE]
    ELSE LET r == cached_execute(c, d, text)
             results == r.outcome.values
         IN  [value |-> IF ~r.outcome.ok
                        THEN [ok |-> FALSE, result |-> Empty, err |-> r.outcome.err]
                        ELSE [ok |-> TRUE,
                              result |-> CASE Len(results) = 0 -> Empty
                                           [] Len(results) = 1 -> Single(results[1])
                                           [] OTHER -> Multiple(results),
                              err |-> "none"],
              cache |-> r.cache, asked |-> TRUE, invoked |-> r.invoked]

\* impl ContentGenerator for EnhancedApp: generate_current_content
enhanced_generate_current_content(c, d, text) ==
    LET r == enhanced_execute_current_query(c, d, text)
    IN  [r EXCEPT !.value = IF r.value.ok THEN format_pretty(r.value.result)
                            ELSE IF is_empty(text) THEN to_string_pretty(d)
                            ELSE <<>>]

\* impl ContentGenerator for EnhancedApp: get_total_lines
enhanced_get_total_lines(c, d, text) ==
    LET r == enhanced_generate_current_content(c, d, text)
    IN  [r EXCEPT !.value = Len(r.value)]

(***************************************************************************)
(* QueryHistory (src/src/history/mod.rs).                                  *)
(*                                                                         *)
(* A score is kept as an integer, 100000 times the f64 of the code:        *)
(* recent_weight is counted in hundredths and time_decay in thousandths.   *)
(* exp(-elapsed / SECONDS_PER_DAY) is computed in fixed point, a factor of *)
(* 0.368 for each whole day elapsed.  HashMap iteration order is not       *)
(* specified: the operators that iterate take the order as an argument and *)
(* the actions choose it freely; sort_by is a stable sort.                 *)
(***************************************************************************)
recent_weight == 50

RECURSIVE calculate_time_decay_of(_)
calculate_time_decay_of(elapsed) ==
    IF elapsed = 0 THEN 1000
    ELSE (calculate_time_decay_of(elapsed - 1) * 368) \div 1000

\* duration_since(last_used).unwrap_or_default(): 0 when last_used is later
calculate_time_decay(last_used, t) ==
    calculate_time_decay_of(IF t >= last_used THEN t - last_used ELSE 0)

calculate_score(entry, t) ==
    LET frequency_score == entry.count * 1000
        time_decay == calculate_time_decay(entry.last_used, t)
    IN  frequency_score * (100 - recent_weight) + time_decay * recent_weight

\* The orders in which a HashMap with the keys S may be iterated.
Orders(S) ==
    {o \in [1..Cardinality(S) -> S] : \A i, j \in DOMAIN o : o[i] = o[j] => i = j}

\* slice::sort_by on (text, score) items: stable, ascending or descending score.
RECURSIVE sort_by_score(_, _)
sort_by_score(items, descending) ==
    IF items = <<>> THEN <<>>
    ELSE LET n == Len(items)
             x == items[n]
             front == sort_by_score(SubSeq(items, 1, n - 1), descending)
             After(y) == IF descending THEN y.score < x.score ELSE y.score > x.score
             at == IF \E i \in 1..Len(front) : After(front[i])
                   THEN CHOOSE i \in 1..Len(front) :
                          After(front[i]) /\ \A j \in 1..(i - 1) : ~After(front[j])
                   ELSE Len(front) + 1
         IN  SubSeq(front, 1, at - 1) \o <<x>> \o SubSeq(front, at, Len(front))

scored(es, texts, t) ==
    [i \in 1..Len(texts) |->
        [text |-> texts[i], score |-> calculate_score(es[texts[i]], t)]]

truncate(s, limit) == SubSeq(s, 1, Min(limit, Len(s)))

\* mutant: the excess entries are taken from the high end of the scores
cleanup_old_entries_highest(es, order, max, t) ==
    IF Cardinality(DOMAIN es) <= max THEN es
    ELSE LET sorted == sort_by_score(scored(es, order, t), TRUE)
             remove_count == Cardinality(DOMAIN es) - max
             removed == {sorted[i].text : i \in 1..remove_count}
         IN  [q \in DOMAIN es \ removed |-> es[q]]

\* mutant: the excess entries are the first of the iteration, whatever they score
cleanup_old_entries_unsorted(es, order, max, t) ==
    IF Cardinality(DOMAIN es) <= max THEN es
    ELSE LET remove_count == Cardinality(DOMAIN es) - max
             removed == {order[i] : i \in 1..remove_count}
         IN  [q \in DOMAIN es \ removed |-> es[q]]

cleanup_old_entries(es, order, max, t) ==
    IF Cardinality(DOMAIN es) <= max THEN es
    ELSE LET sorted == sort_by_score(scored(es, order, t), FALSE)
             remove_count == Cardinality(DOMAIN es) - max
             removed == {sorted[i].text : i \in 1..remove_count}
         IN  [q \in DOMAIN es \ removed |-> es[q]]

\* mutant: a repeated query replaces its entry instead of counting up
upsert_resetting(es, query, t) ==
    [q \in DOMAIN es \cup {query} |->
        IF q = query
        THEN [query |-> query, count |-> 1, last_used |-> t, first_used |-> t]
        ELSE es[q]]

\* The match of record_query: count up the entry of the text, or insert one.
\* mutant: a repeated record refreshes first_used as well
upsert_refreshing_both(es, query, t) ==
    IF query \in DOMAIN es
    THEN [es EXCEPT ![query] = [@ EXCEPT !.count = @ + 1, !.last_used = t,
                                         !.first_used = t]]
    ELSE [q \in DOMAIN es \cup {query} |->
             IF q = query
             THEN [query |-> query, count |-> 1, last_used |-> t, first_used |-> t]
             ELSE es[q]]

upsert(es, query, t) ==
    IF query \in DOMAIN es
    THEN [es EXCEPT ![query] = [@ EXCEPT !.count = @ + 1, !.last_used = t]]
    ELSE [q \in DOMAIN es \cup {query} |->
            IF q = query
            THEN [query |-> query, count |-> 1, last_used |-> t, first_used |-> t]
            ELSE es[q]]

\* mutant: the text is tested for emptiness without being trimmed
record_query_untrimmed(es, order, query, max, t) ==
    IF is_empty(query) THEN es
    ELSE cleanup_old_entries(upsert(es, query, t), order, max, t)

\* mutant: nothing is recorded
record_query_ignoring(es, order, query, max, t) == es

\* order: the iteration order of the map at the time cleanup_old_entries runs
record_query(es, order, query, max, t) ==
    IF is_empty(trim(query)) THEN es
    ELSE cleanup_old_entries(upsert(es, query, t), order, max, t)

\* mutant: the candidates are sorted by ascending score
get_suggestions_ascending(es, order, prefix, limit, t) ==
    IF len(prefix) < 2 THEN <<>>
    ELSE LET Matches(q) == starts_with(q, prefix) /\ q # prefix
             candidates == scored(es, SelectSeq(order, Matches), t)
         IN  truncate(sort_by_score(candidates, FALSE), limit)

\* mutant: the entry equal to the prefix is not filtered out
get_suggestions_with_self(es, order, prefix, limit, t) ==
    IF len(prefix) < 2 THEN <<>>
    ELSE LET Matches(q) == starts_with(q, prefix)
             candidates == scored(es, SelectSeq(order, Matches), t)
         IN  truncate(sort_by_score(candidates, TRUE), limit)

get_suggestions(es, order, prefix, limit, t) ==
    IF len(prefix) < 2 THEN <<>>
    ELSE LET Matches(q) == starts_with(q, prefix) /\ q # prefix
             candidates == scored(es, SelectSeq(order, Matches), t)
         IN  truncate(sort_by_score(candidates, TRUE), limit)

(***************************************************************************)
(* The documents and query texts of the model.                             *)
(***************************************************************************)
\* {"a":[1,2,3]}
Document == JObj(<<"a">>, <<JArr(<<JNum(1), JNum(2), JNum(3)>>)>>)
\* [1]
OtherDocument == JArr(<<JNum(1)>>)

CacheDocs == {Document, OtherDocument}
CacheQueries == {<<>>, <<".", "a">>, <<".", ".">>, <<"a">>}
CachePairs == CacheDocs \X CacheQueries

\* the texts handed to record_query, and those of them that are not blank
HistQueries == {<<>>, <<" ">>, <<".", "n">>, <<".", "n", "a">>, <<".", "n", "b">>}
NonBlank == {q \in HistQueries : ~is_empty(trim(q))}

\* the texts recorded before get_suggestions is asked, and what it is asked
SuggestQueries == {<<"é", "n">>, <<"é", "n", "a">>, <<"é", "n", "b">>}
Prefixes == {<<>>, <<".">>, <<"é">>, <<"é", "n">>}
Limits == {0, 1, 2}

\* The keys of a keyboard: every code with every set of modifiers, pressed or
\* released.
KeyCodes == {"Esc", "Up", "Down", "Left", "Backspace", "Enter", "Tab", "BackTab",
             "Delete", "F1"}
KeyChars == {"c", "C", "a", ".", "\n"}
KeyModifiers == SUBSET {"SHIFT", "CONTROL", "ALT"}
KeyEventKinds == {"Press", "Release"}
KeyEvents ==
    [event : {"Key"}, code : KeyCodes, c : {""}, modifiers : KeyModifiers,
     kind : KeyEventKinds]
    \cup [event : {"Key"}, code : {"Char"}, c : KeyChars, modifiers : KeyModifiers,
          kind : KeyEventKinds]

\* The session: the configurations it may be started in (a document, a window
\* height, 20 being AppConfig's default, and a history capacity), the keys
\* that are typed, the input lines they are used to spell and the days the
\* session lasts.
SessionConfigs ==
    {[data |-> Document, visible_height |-> 2, max_entries |-> MaxEntries],
     [data |-> Document, visible_height |-> 20, max_entries |-> DefaultMaxEntries],
     [data |-> OtherDocument, visible_height |-> 2, max_entries |-> DefaultMaxEntries]}
Chars == {".", "a", " "}
SessionDays == {0, 1}
TypedInputs == {<<>>, <<" ">>, <<".">>, <<".", "a">>, <<".", "a", "a">>}

(***************************************************************************)
(* Initial values of the parts a specification does not exercise.          *)
(***************************************************************************)
InitSessionIdle ==
    /\ input = <<>>
    /\ exit = FALSE
    /\ last_error = "none"
    /\ visible_height = 0
    /\ app_data = JNull

InitHistIdle ==
    /\ entries = EmptyMap
    /\ max_entries = 0
    /\ now = 0
    /\ hist = [op |-> "new"]
    /\ sugg = [called |-> FALSE]

InitCacheIdle ==
    /\ cache = EmptyMap
    /\ spy = [p \in CachePairs |-> [calls |-> 0, asked |-> FALSE, first |-> Err("none")]]
    /\ last_exec = [called |-> FALSE]
    /\ cells = <<>>
    /\ frames = <<>>

NoEvent == [event |-> "none"]

InitLoopIdle ==
    /\ pc = "idle"
    /\ key_event = NoEvent
    /\ view = [op |-> "new"]

(***************************************************************************)
(* SpecScroll: scroll_up and scroll_down_bounded called on a bare AppState *)
(* with a fixed (total_lines, visible_height), as the unit tests of        *)
(* state.rs do.  sc observes the calls: the fixed arguments, the number of *)
(* scroll_down_bounded calls made while no scroll_up has been made yet,    *)
(* and the last two calls with the offsets they started from.              *)
(***************************************************************************)
InitScroll ==
    /\ InitSessionIdle /\ InitHistIdle /\ InitCacheIdle /\ InitLoopIdle
    /\ scroll_offset = 0
    /\ \E t \in 0..MaxLines, v \in 0..MaxLines :
          sc = [total |-> t, height |-> v, downs |-> 0, pure |-> TRUE,
                op |-> "new", prev |-> 0, op2 |-> "new", prev2 |-> 0]

ScrollDownCall ==
    /\ sc.pure => sc.downs < MaxCalls
    /\ scroll_offset' = scroll_down_bounded(scroll_offset, sc.total, sc.height)
    /\ sc' = [sc EXCEPT !.downs = IF sc.pure THEN @ + 1 ELSE 0,
                        !.op = "down", !.prev = scroll_offset,
                        !.op2 = sc.op, !.prev2 = sc.prev]
    /\ UNCHANGED <<loopVars, sessionVars, histVars, cacheVars>>

ScrollUpCall ==
    /\ scroll_offset' = scroll_up(scroll_offset)
    /\ sc' = [sc EXCEPT !.downs = 0, !.pure = FALSE,
                        !.op = "up", !.prev = scroll_offset,
                        !.op2 = sc.op, !.prev2 = sc.prev]
    /\ UNCHANGED <<loopVars, sessionVars, histVars, cacheVars>>

NextScroll == ScrollDownCall \/ ScrollUpCall

SpecScroll == InitScroll /\ [][NextScroll]_vars

(***************************************************************************)
(* SpecCache: execute called on one CachedQueryExecutor<JaqQueryExecutor,  *)
(* InMemoryQueryCache> with any document and query text, in any order.     *)
(* spy counts the invocations of the wrapped executor per (data, query)    *)
(* and keeps the outcome of the first call for the pair; last_exec keeps   *)
(* the last call, its outcome and the state it started from.               *)
(***************************************************************************)
InitCache ==
    /\ InitSessionIdle /\ InitHistIdle /\ InitCacheIdle /\ InitLoopIdle
    /\ scroll_offset = 0
    /\ sc = [op |-> "new"]

Execute(data, query) ==
    LET r == cached_execute(cache, data, query)
        p == <<data, query>>
    IN  /\ r.invoked => spy[p].calls < MaxInner
        /\ cache' = r.cache
        /\ spy' = [spy EXCEPT ![p] =
                      [calls |-> @.calls + (IF r.invoked THEN 1 ELSE 0),
                       asked |-> TRUE,
                       first |-> IF @.asked THEN @.first ELSE r.outcome]]
        /\ last_exec' = [called |-> TRUE, data |-> data, query |-> query,
                         outcome |-> r.outcome, invoked |-> r.invoked,
                         calls_before |-> spy[p].calls,
                         asked_before |-> spy[p].asked,
                         cache_before |-> cache]
        /\ UNCHANGED <<loopVars, sessionVars, histVars, scroll_offset, sc, borrowVars>>

NextCache == \E data \in CacheDocs, query \in CacheQueries : Execute(data, query)

SpecCache == InitCache /\ [][NextCache]_vars

(***************************************************************************)
(* SpecBorrow: CachedQueryExecutor::execute statement by statement, on     *)
(* MaxDecorators executors stacked by with_cache() over JaqQueryExecutor   *)
(* (decorator 1 is the outermost).  Each decorator owns its RefCell: cells *)
(* keeps for each the number of shared borrows alive, whether the mutable  *)
(* borrow is alive, and the map.  A frame is a call of execute in          *)
(* progress: its decorator, the statement it is at, its arguments and the  *)
(* result it has so far.  RefCell::borrow panics while the mutable borrow  *)
(* is alive, RefCell::borrow_mut while any borrow is; the executor is not  *)
(* Sync, so one thread runs one call at a time.                            *)
(*   borrow     - self.cache.borrow()          (scrutinee of the if let)   *)
(*   get        - .get(&key)                                               *)
(*   hit        - return Ok(cached_result)     (the Ref dropped on return) *)
(*   execute    - self.executor.execute(data, query)?                      *)
(*   wait       - the wrapped decorator is running                         *)
(*   borrow_mut - self.cache.borrow_mut()                                  *)
(*   set        - .set(key, result.clone())    (the RefMut dropped after)  *)
(*   return     - Ok(result);  fail - the ? returned the error             *)
(***************************************************************************)
MaxDecorators == 2

Frame(layer, pos, data, query, result) ==
    [layer |-> layer, pos |-> pos, data |-> data, query |-> query, result |-> result]

Top == frames[Len(frames)]

AtTop(pos) == frames # <<>> /\ Top.pos = pos

SetTop(pos, result) ==
    [frames EXCEPT ![Len(frames)] = [@ EXCEPT !.pos = pos, !.result = result]]

InitBorrow ==
    /\ InitSessionIdle /\ InitHistIdle /\ InitLoopIdle
    /\ scroll_offset = 0
    /\ sc = [op |-> "new"]
    /\ cache = EmptyMap
    /\ spy = [p \in CachePairs |-> [calls |-> 0, asked |-> FALSE, first |-> Err("none")]]
    /\ last_exec = [called |-> FALSE]
    /\ cells = [l \in 1..MaxDecorators |->
                   [readers |-> 0, writer |-> FALSE, map |-> EmptyMap]]
    /\ frames = <<>>

BorrowFrame == UNCHANGED <<loopVars, sessionVars, histVars, scroll_offset, sc,
                           cache, spy, last_exec>>

\* a caller invokes execute on the outermost decorator
ExecuteCalled(data, query) ==
    /\ frames = <<>>
    /\ frames' = <<Frame(1, "borrow", data, query, Err("none"))>>
    /\ UNCHANGED cells
    /\ BorrowFrame

Borrow ==
    /\ AtTop("borrow")
    /\ IF cells[Top.layer].writer
       THEN /\ frames' = SetTop("panic", Top.result)
            /\ UNCHANGED cells
       ELSE /\ cells' = [cells EXCEPT ![Top.layer].readers = @ + 1]
            /\ frames' = SetTop("get", Top.result)
    /\ BorrowFrame

\* mutant: the Ref is bound to a variable of the function body and lives to
\* its end
GetKeepingRef ==
    /\ AtTop("get")
    /\ LET cached_result == cache_get(cells[Top.layer].map, cache_key(Top.data, Top.query))
       IN  IF cached_result.ok
           THEN frames' = SetTop("hit", Ok(cached_result.values))
           ELSE frames' = SetTop("execute", Top.result)
    /\ UNCHANGED cells
    /\ BorrowFrame

\* the if let: on a hit the body returns with the Ref alive, on a miss the Ref
\* is dropped where the statement ends
Get ==
    /\ AtTop("get")
    /\ LET cached_result == cache_get(cells[Top.layer].map, cache_key(Top.data, Top.query))
       IN  IF cached_result.ok
           THEN /\ frames' = SetTop("hit", Ok(cached_result.values))
                /\ UNCHANGED cells
           ELSE /\ frames' = SetTop("execute", Top.result)
                /\ cells' = [cells EXCEPT ![Top.layer].readers = @ - 1]
    /\ BorrowFrame

\* self.executor.execute: the next decorator, or JaqQueryExecutor under the
\* innermost
CallWrapped ==
    /\ AtTop("execute")
    /\ IF Top.layer < MaxDecorators
       THEN frames' = Append(SetTop("wait", Top.result),
                             Frame(Top.layer + 1, "borrow", Top.data, Top.query,
                                   Err("none")))
       ELSE LET result == execute(Top.data, Top.query)
            IN  frames' = SetTop(IF result.ok THEN "borrow_mut" ELSE "fail", result)
    /\ UNCHANGED cells
    /\ BorrowFrame

BorrowMut ==
    /\ AtTop("borrow_mut")
    /\ IF cells[Top.layer].writer \/ cells[Top.layer].readers > 0
       THEN /\ frames' = SetTop("panic", Top.result)
            /\ UNCHANGED cells
       ELSE /\ cells' = [cells EXCEPT ![Top.layer].writer = TRUE]
            /\ frames' = SetTop("set", Top.result)
    /\ BorrowFrame

Set ==
    /\ AtTop("set")
    /\ cells' = [cells EXCEPT ![Top.layer] =
                    [@ EXCEPT !.map = cache_set(@, cache_key(Top.data, Top.query),
                                                Top.result.values),
                              !.writer = FALSE]]
    /\ frames' = SetTop("return", Top.result)
    /\ BorrowFrame

\* the call returns to the decorator that made it, or to the caller
Return ==
    /\ frames # <<>> /\ Top.pos \in {"hit", "return", "fail"}
    /\ cells' = IF Top.pos = "hit"
                THEN [cells EXCEPT ![Top.layer].readers = @ - 1]
                ELSE cells
    /\ frames' = IF Len(frames) = 1 THEN <<>>
                 ELSE [SubSeq(frames, 1, Len(frames) - 1) EXCEPT ![Len(frames) - 1] =
                          [@ EXCEPT !.pos = IF Top.result.ok THEN "borrow_mut" ELSE "fail",
                                    !.result = Top.result]]
    /\ BorrowFrame

NextBorrow ==
    \/ \E data \in CacheDocs, query \in CacheQueries : ExecuteCalled(data, query)
    \/ Borrow
    \/ Get
    \/ CallWrapped
    \/ BorrowMut
    \/ Set
    \/ Return

SpecBorrow == InitBorrow /\ [][NextBorrow]_vars

\* C4: the wrapped executor runs at most once for a (document, query) whose
\* execution succeeds: the first call for the pair is a miss that runs it once
\* and stores the result, every later call is a hit that does not run it and
\* returns the first result.
C4_InnerInvokedOncePerPair ==
    /\ \A p \in CachePairs : execute(p[1], p[2]).ok => spy[p].calls <= 1
    /\ (last_exec.called /\ last_exec.outcome.ok) =>
          LET p == <<last_exec.data, last_exec.query>>
              key == cache_key(last_exec.data, last_exec.query)
          IN  IF ~last_exec.asked_before
              THEN /\ last_exec.invoked
                   /\ last_exec.calls_before = 0 /\ spy[p].calls = 1
                   /\ key \notin DOMAIN last_exec.cache_before
                   /\ cache_get(cache, key) = last_exec.outcome
              ELSE /\ ~last_exec.invoked
                   /\ spy[p].calls = last_exec.calls_before
                   /\ last_exec.outcome = spy[p].first

C4_Witness ==
    /\ last_exec.called /\ last_exec.outcome.ok
    /\ last_exec.asked_before /\ ~last_exec.invoked
    /\ last_exec.query = <<".", "a">> /\ last_exec.data = Document
    /\ spy[<<Document, <<".", "a">>>>].calls = 1

\* C5: a failure of the wrapped executor is returned as it is and never cached:
\* the cache is left as it was, holds no key of a failing pair, and every call
\* for a failing pair runs the wrapped executor again.
C5_ErrorsNeverCached ==
    /\ \A p \in CachePairs :
          ~execute(p[1], p[2]).ok => cache_key(p[1], p[2]) \notin DOMAIN cache
    /\ (last_exec.called /\ ~execute(last_exec.data, last_exec.query).ok) =>
          /\ ~last_exec.outcome.ok
          /\ last_exec.outcome = execute(last_exec.data, last_exec.query)
          /\ cache = last_exec.cache_before
          /\ last_exec.invoked
          /\ spy[<<last_exec.data, last_exec.query>>].calls
                = last_exec.calls_before + 1

C5_Witness ==
    /\ last_exec.called /\ ~last_exec.outcome.ok
    /\ last_exec.outcome.err = "QueryCompile"
    /\ last_exec.asked_before /\ last_exec.invoked
    /\ last_exec.calls_before = 1
    /\ cache = last_exec.cache_before /\ cache # EmptyMap

\* C6: every call through the decorator returns the outcome the wrapped
\* executor gives for the same arguments: the same values in the same order, or
\* the same kind of failure.
C6_DecoratorEquivalent ==
    last_exec.called =>
        last_exec.outcome = execute(last_exec.data, last_exec.query)

C6_Witness ==
    /\ last_exec.called /\ ~last_exec.invoked
    /\ last_exec.data = Document /\ last_exec.query = <<".", ".">>
    /\ Len(last_exec.outcome.values) = 5
    /\ \E q \in CacheQueries :
          q # last_exec.query /\ cache_key(Document, q) \in DOMAIN cache

(***************************************************************************)
(* SpecHist: record_query and get_suggestions called on one QueryHistory   *)
(* built with any max_entries up to MaxEntries, while the clock runs.      *)
(* hist observes the record_query calls: how often each text was recorded, *)
(* the texts whose entry was ever evicted, and for the last call its       *)
(* argument, the count it found, the entries it evicted and its time.      *)
(* sugg is the last get_suggestions call, as long as the history and the   *)
(* clock are what the call saw.                                            *)
(***************************************************************************)
InitHist ==
    /\ InitSessionIdle /\ InitCacheIdle /\ InitLoopIdle
    /\ scroll_offset = 0
    /\ sc = [op |-> "new"]
    /\ entries = EmptyMap
    /\ max_entries \in 0..MaxEntries
    /\ now = 0
    /\ hist = [times |-> [q \in NonBlank |-> 0], lost |-> {}, op |-> "new",
               query |-> <<>>, count_before |-> 0, removed |-> EmptyMap, at |-> 0,
               set_back |-> FALSE]
    /\ sugg = [called |-> FALSE]

RecordQueryCall(query) ==
    /\ query \in NonBlank => hist.times[query] < MaxCount
    /\ \E order \in Orders(DOMAIN upsert(entries, query, now)) :
          entries' = record_query(entries, order, query, max_entries, now)
    /\ LET upserted == upsert(entries, query, now)
           gone == IF is_empty(trim(query)) THEN {}
                   ELSE DOMAIN upserted \ DOMAIN entries'
       IN  hist' = [times |-> IF query \in NonBlank
                              THEN [hist.times EXCEPT ![query] = @ + 1]
                              ELSE hist.times,
                    lost |-> hist.lost \cup gone,
                    op |-> "record",
                    query |-> query,
                    count_before |-> IF query \in DOMAIN entries
                                     THEN entries[query].count ELSE 0,
                    removed |-> [q \in gone |-> upserted[q]],
                    at |-> now,
                    set_back |-> hist.set_back]
    /\ sugg' = [called |-> FALSE]
    /\ UNCHANGED <<loopVars, max_entries, now, sessionVars, cacheVars, scroll_offset, sc>>

Tick ==
    /\ now < MaxTime
    /\ now' = now + 1
    /\ sugg' = [called |-> FALSE]
    /\ UNCHANGED <<loopVars, entries, max_entries, hist, sessionVars, cacheVars,
                   scroll_offset, sc>>

NextHist ==
    \/ \E query \in HistQueries : RecordQueryCall(query)
    \/ Tick

SpecHist == InitHist /\ [][NextHist]_vars

(***************************************************************************)
(* SpecClock: SpecHist on a system clock that can also be set back.        *)
(* record_query and calculate_time_decay read SystemTime::now(), the wall  *)
(* clock, which is not monotonic: a later reading can be earlier than a    *)
(* stored last_used (calculate_time_decay takes unwrap_or_default() of     *)
(* duration_since for that case).  hist.set_back tells whether the clock   *)
(* has been set back since the history was built.                          *)
(***************************************************************************)
ClockSetBack ==
    /\ now > 0
    /\ now' = now - 1
    /\ hist' = [hist EXCEPT !.set_back = TRUE]
    /\ sugg' = [called |-> FALSE]
    /\ UNCHANGED <<loopVars, entries, max_entries, sessionVars, cacheVars,
                   scroll_offset, sc>>

NextClock ==
    \/ \E query \in HistQueries : RecordQueryCall(query)
    \/ Tick
    \/ ClockSetBack

SpecClock == InitHist /\ [][NextClock]_vars

(***************************************************************************)
(* SpecSuggest: get_suggestions called on a QueryHistory that record_query *)
(* fills while the clock runs.  sugg is the last get_suggestions call, as  *)
(* long as the history and the clock are what the call saw.                *)
(***************************************************************************)
InitSuggest ==
    /\ InitSessionIdle /\ InitCacheIdle /\ InitLoopIdle
    /\ scroll_offset = 0
    /\ sc = [op |-> "new"]
    /\ entries = EmptyMap
    /\ max_entries = MaxEntries
    /\ now = 0
    /\ hist = [op |-> "new"]
    /\ sugg = [called |-> FALSE]

RecordQuery(query) ==
    /\ query \in DOMAIN entries => entries[query].count < MaxCount
    /\ \E order \in Orders(DOMAIN upsert(entries, query, now)) :
          entries' = record_query(entries, order, query, max_entries, now)
    /\ sugg' = [called |-> FALSE]
    /\ UNCHANGED <<loopVars, max_entries, now, hist, sessionVars, cacheVars, scroll_offset, sc>>

GetSuggestionsCall(prefix, limit) ==
    /\ \E result \in {get_suggestions(entries, order, prefix, limit, now) :
                           order \in Orders(DOMAIN entries)} :
          sugg' = [called |-> TRUE, prefix |-> prefix, limit |-> limit,
                   result |-> result]
    /\ UNCHANGED <<loopVars, entries, max_entries, now, hist, sessionVars, cacheVars,
                   scroll_offset, sc>>

NextSuggest ==
    \/ \E query \in SuggestQueries : RecordQuery(query)
    \/ Tick
    \/ \E prefix \in Prefixes, limit \in Limits : GetSuggestionsCall(prefix, limit)

SpecSuggest == InitSuggest /\ [][NextSuggest]_vars

(***************************************************************************)
(* Spec: a session.  App::run (src/src/ui/app.rs) reads one key at a time  *)
(* while exit is false and hands its Action to update                      *)
(* (src/src/ui/events.rs); there is one action below for each variant of   *)
(* Action.  The session's history is the one AppState::default() builds,   *)
(* QueryHistory::default(), and the clock runs while the session waits for *)
(* a key.  A session meets a full history after 100 distinct texts have    *)
(* been committed; the session is also run with a history of capacity      *)
(* MaxEntries, which the few texts typed here fill in the same way.        *)
(***************************************************************************)
\* mutant: the best-scoring entry of the history, whatever its text
get_best_suggestion_of_all(es, order, text, t) ==
    IF len(text) < 2 THEN [some |-> FALSE, text |-> <<>>]
    ELSE LET suggestions == truncate(sort_by_score(scored(es, order, t), TRUE), 1)
         IN  IF suggestions = <<>> THEN [some |-> FALSE, text |-> <<>>]
             ELSE [some |-> TRUE, text |-> suggestions[1].text]

get_best_suggestion(es, order, text, t) ==
    IF len(text) < 2 THEN [some |-> FALSE, text |-> <<>>]
    ELSE LET suggestions == get_suggestions(es, order, text, 1, t)
         IN  IF suggestions = <<>> THEN [some |-> FALSE, text |-> <<>>]
             ELSE [some |-> TRUE, text |-> suggestions[1].text]

\* A value of the enum Action (src/src/ui/events.rs); c is the character of
\* Action::Input and "" for the other variants.
Action(kind, c) == [kind |-> kind, c |-> c]

\* A crossterm KeyEvent: its code, the character of KeyCode::Char ("" for the
\* other codes), its modifiers and its kind.
KeyEvent(code, c, modifiers, kind) ==
    [event |-> "Key", code |-> code, c |-> c, modifiers |-> modifiers, kind |-> kind]

\* mutant: the character c quits with or without the control key
get_action_without_control(k) ==
    IF k.code = "Esc" THEN Action("Quit", "")
    ELSE IF k.code = "Char" /\ k.c = "c" THEN Action("Quit", "")
    ELSE IF k.code = "Up" THEN Action("ScrollUp", "")
    ELSE IF k.code = "Down" THEN Action("ScrollDown", "")
    ELSE IF k.code = "Char"
         THEN (IF k.c = "\n" THEN Action("Clear", "") ELSE Action("Input", k.c))
    ELSE IF k.code = "Backspace" THEN Action("Backspace", "")
    ELSE IF k.code = "Enter" THEN Action("Clear", "")
    ELSE IF k.code = "Tab" THEN Action("Tab", "")
    ELSE Action("None", "")

\* get_action: the arms of the match in their order, the first that matches
get_action(k) ==
    IF k.code = "Esc" THEN Action("Quit", "")
    ELSE IF k.code = "Char" /\ k.c = "c" /\ "CONTROL" \in k.modifiers
         THEN Action("Quit", "")
    ELSE IF k.code = "Up" THEN Action("ScrollUp", "")
    ELSE IF k.code = "Down" THEN Action("ScrollDown", "")
    ELSE IF k.code = "Char"
         THEN (IF k.c = "\n" THEN Action("Clear", "") ELSE Action("Input", k.c))
    ELSE IF k.code = "Backspace" THEN Action("Backspace", "")
    ELSE IF k.code = "Enter" THEN Action("Clear", "")
    ELSE IF k.code = "Tab" THEN Action("Tab", "")
    ELSE Action("None", "")

\* What sc keeps of a dispatched action, until the clock moves: the variant of
\* Action, the character of Action::Input, and the session as the action
\* found it.
Dispatched(action, c) ==
    [op |-> action, c |-> c,
     before |-> [input |-> input, exit |-> exit, last_error |-> last_error,
                 scroll_offset |-> scroll_offset, entries |-> entries]]

Init ==
    /\ InitCacheIdle /\ InitLoopIdle
    /\ input = <<>>
    /\ exit = FALSE
    /\ last_error = "none"
    /\ scroll_offset = 0
    /\ \E config \in SessionConfigs :
          /\ visible_height = config.visible_height
          /\ app_data = config.data
          /\ max_entries = config.max_entries
    /\ entries = EmptyMap
    /\ now = 0
    /\ hist = [op |-> "new"]
    /\ sugg = [called |-> FALSE]
    /\ sc = [op |-> "new"]

\* mutant: the flag is toggled
QuitToggling ==
    /\ exit' = ~exit
    /\ sc' = Dispatched("Quit", "")
    /\ UNCHANGED <<input, last_error, scroll_offset, visible_height, app_data,
                   histVars, cacheVars>>

Quit ==
    /\ exit' = TRUE
    /\ sc' = Dispatched("Quit", "")
    /\ UNCHANGED <<input, last_error, scroll_offset, visible_height, app_data,
                   histVars, cacheVars>>

\* mutant: the scroll offset is kept
InputKeepingScroll(c) ==
    /\ Append(input, c) \in TypedInputs
    /\ input' = Append(input, c)
    /\ sc' = Dispatched("Input", c)
    /\ UNCHANGED <<exit, last_error, scroll_offset, visible_height, app_data,
                   histVars, cacheVars>>

Input(c) ==
    /\ Append(input, c) \in TypedInputs
    /\ input' = Append(input, c)
    /\ scroll_offset' = reset_scroll
    /\ sc' = Dispatched("Input", c)
    /\ UNCHANGED <<exit, last_error, visible_height, app_data, histVars, cacheVars>>

\* mutant: the scroll offset is reset only when a character was removed
BackspaceResettingWhenRemoved ==
    /\ input' = IF ~is_empty(input) THEN SubSeq(input, 1, Len(input) - 1) ELSE input
    /\ scroll_offset' = IF ~is_empty(input) THEN reset_scroll ELSE scroll_offset
    /\ sc' = Dispatched("Backspace", "")
    /\ UNCHANGED <<exit, last_error, visible_height, app_data, histVars, cacheVars>>

Backspace ==
    /\ input' = IF ~is_empty(input) THEN SubSeq(input, 1, Len(input) - 1) ELSE input
    /\ scroll_offset' = reset_scroll
    /\ sc' = Dispatched("Backspace", "")
    /\ UNCHANGED <<exit, last_error, visible_height, app_data, histVars, cacheVars>>

Clear ==
    /\ input \in DOMAIN entries => entries[input].count < MaxCount
    /\ IF ~is_empty(trim(input))
       THEN entries' \in {record_query(entries, order, input, max_entries, now) :
                            order \in Orders(DOMAIN upsert(entries, input, now))}
       ELSE entries' = entries
    /\ input' = <<>>
    /\ last_error' = "none"
    /\ scroll_offset' = reset_scroll
    /\ sc' = Dispatched("Clear", "")
    /\ UNCHANGED <<exit, visible_height, app_data, max_entries, now, hist, sugg,
                   cacheVars>>

ScrollUp ==
    /\ scroll_offset' = scroll_up(scroll_offset)
    /\ sc' = Dispatched("ScrollUp", "")
    /\ UNCHANGED <<sessionVars, histVars, cacheVars>>

ScrollDown ==
    /\ scroll_offset' = scroll_down_bounded(scroll_offset,
                                            get_total_lines(app_data, input),
                                            visible_height)
    /\ sc' = Dispatched("ScrollDown", "")
    /\ UNCHANGED <<sessionVars, histVars, cacheVars>>

\* mutant: accepting a suggestion resets the scroll offset
TabResettingScroll ==
    /\ \E suggestion \in {get_best_suggestion(entries, order, input, now) :
                              order \in Orders(DOMAIN entries)} :
          /\ input' = IF suggestion.some THEN suggestion.text ELSE input
          /\ scroll_offset' = IF suggestion.some THEN reset_scroll ELSE scroll_offset
    /\ sc' = Dispatched("Tab", "")
    /\ UNCHANGED <<exit, last_error, visible_height, app_data, histVars, cacheVars>>

\* mutant: an accepted suggestion is recorded in the history
TabRecording ==
    /\ \E suggestion \in {get_best_suggestion(entries, order, input, now) :
                              order \in Orders(DOMAIN entries)} :
          /\ input' = IF suggestion.some THEN suggestion.text ELSE input
          /\ entries' = IF suggestion.some
                        THEN upsert(entries, suggestion.text, now)
                        ELSE entries
    /\ sc' = Dispatched("Tab", "")
    /\ UNCHANGED <<exit, last_error, scroll_offset, visible_height, app_data,
                   max_entries, now, hist, sugg, cacheVars>>

Tab ==
    /\ \E suggestion \in {get_best_suggestion(entries, order, input, now) :
                              order \in Orders(DOMAIN entries)} :
          input' = IF suggestion.some THEN suggestion.text ELSE input
    /\ sc' = Dispatched("Tab", "")
    /\ UNCHANGED <<exit, last_error, scroll_offset, visible_height, app_data,
                   histVars, cacheVars>>

\* mutant: an undefined key resets the scroll offset
NoneResettingScroll ==
    /\ scroll_offset' = reset_scroll
    /\ sc' = Dispatched("None", "")
    /\ UNCHANGED <<sessionVars, histVars, cacheVars>>

None ==
    /\ sc' = Dispatched("None", "")
    /\ UNCHANGED <<sessionVars, scroll_offset, histVars, cacheVars>>

\* event::read blocks until the next key: the clock moves on
Wait ==
    /\ now + 1 \in SessionDays
    /\ now' = now + 1
    /\ sc' = [op |-> "Wait"]
    /\ UNCHANGED <<sessionVars, scroll_offset, entries, max_entries, hist, sugg,
                   cacheVars>>

\* EnhancedApp::update_with_action (src/src/app/builder.rs) applied to a
\* session s = [input, exit, last_error, scroll_offset] of an EnhancedApp on
\* document d with config.visible_height h: whether the match has an arm for
\* the action, whether the arm records the input in a history, and the
\* session the arm leaves.  The match has no arm for Action::Tab, and an
\* EnhancedApp holds no QueryHistory.
enhanced_update_with_action(s, action, c, d, h) ==
    CASE action = "Quit" ->
           [handled |-> TRUE, recorded |-> FALSE, state |-> [s EXCEPT !.exit = TRUE]]
      [] action = "Input" ->
           [handled |-> TRUE, recorded |-> FALSE,
            state |-> [s EXCEPT !.input = Append(s.input, c),
                                !.scroll_offset = reset_scroll]]
      [] action = "Backspace" ->
           [handled |-> TRUE, recorded |-> FALSE,
            state |-> [s EXCEPT !.input = IF ~is_empty(s.input)
                                          THEN SubSeq(s.input, 1, Len(s.input) - 1)
                                          ELSE s.input,
                                !.scroll_offset = reset_scroll]]
      [] action = "Clear" ->
           [handled |-> TRUE, recorded |-> FALSE,
            state |-> [s EXCEPT !.input = <<>>, !.last_error = "none",
                                !.scroll_offset = reset_scroll]]
      [] action = "ScrollUp" ->
           [handled |-> TRUE, recorded |-> FALSE,
            state |-> [s EXCEPT !.scroll_offset = scroll_up(s.scroll_offset)]]
      [] action = "ScrollDown" ->
           [handled |-> TRUE, recorded |-> FALSE,
            state |-> [s EXCEPT !.scroll_offset =
                          scroll_down_bounded(s.scroll_offset,
                              enhanced_get_total_lines(EmptyMap, d, s.input).value, h)]]
      [] action = "None" ->
           [handled |-> TRUE, recorded |-> FALSE, state |-> s]
      [] OTHER ->
           [handled |-> FALSE, recorded |-> FALSE, state |-> s]

\* update (src/src/ui/events.rs): one arm for each variant of Action
update ==
    \/ Quit /\ UNCHANGED loopVars
    \/ (\E c \in Chars : Input(c)) /\ UNCHANGED loopVars
    \/ Backspace /\ UNCHANGED loopVars
    \/ Clear /\ UNCHANGED loopVars
    \/ ScrollUp /\ UNCHANGED loopVars
    \/ ScrollDown /\ UNCHANGED loopVars
    \/ Tab /\ UNCHANGED loopVars
    \/ None /\ UNCHANGED loopVars

\* App::run: while exit is false, wait for a key and dispatch its action
Next ==
    \/ ~exit /\ Quit /\ UNCHANGED loopVars
    \/ ~exit /\ (\E c \in Chars : Input(c)) /\ UNCHANGED loopVars
    \/ ~exit /\ Backspace /\ UNCHANGED loopVars
    \/ ~exit /\ Clear /\ UNCHANGED loopVars
    \/ ~exit /\ ScrollUp /\ UNCHANGED loopVars
    \/ ~exit /\ ScrollDown /\ UNCHANGED loopVars
    \/ ~exit /\ Tab /\ UNCHANGED loopVars
    \/ ~exit /\ None /\ UNCHANGED loopVars
    \/ ~exit /\ Wait /\ UNCHANGED loopVars

Spec == Init /\ [][Next]_vars

(***************************************************************************)
(* SpecUpdate: update applied to an App directly, as the unit tests do,    *)
(* in any order and whatever exit is.                                      *)
(***************************************************************************)
NextUpdate ==
    \/ update
    \/ Wait /\ UNCHANGED loopVars

SpecUpdate == Init /\ [][NextUpdate]_vars

(***************************************************************************)
(* SpecEdit: the Input and Backspace arms of update on the bytes of the    *)
(* input.  A String is a Vec<u8> holding UTF-8: String::push appends the   *)
(* encoding of the char (one to four bytes), String::pop decodes the last  *)
(* char from the end and truncates by its width.  The session is typed     *)
(* into with characters of every width, erased from and scrolled; sc keeps *)
(* with a Backspace the Input it follows immediately, if it does.          *)
(***************************************************************************)
MaxChars == 3

\* "U+1F600" stands for the char of that scalar value, which takes four bytes
EditChars == {".", "a", " ", "é", "€", "U+1F600"}

\* the scalar value of a char
code_point(c) ==
    CASE c = "." -> 46
      [] c = "a" -> 97
      [] c = " " -> 32
      [] c = "é" -> 233
      [] c = "€" -> 8364
      [] c = "U+1F600" -> 128512

\* char::encode_utf8
encode_utf8(cp) ==
    IF cp < 128 THEN <<cp>>
    ELSE IF cp < 2048 THEN <<192 + (cp \div 64), 128 + (cp % 64)>>
    ELSE IF cp < 65536
    THEN <<224 + (cp \div 4096), 128 + ((cp \div 64) % 64), 128 + (cp % 64)>>
    ELSE <<240 + (cp \div 262144), 128 + ((cp \div 4096) % 64),
           128 + ((cp \div 64) % 64), 128 + (cp % 64)>>

\* str::as_bytes of a text of the model
RECURSIVE as_bytes(_)
as_bytes(s) ==
    IF s = <<>> THEN <<>> ELSE encode_utf8(code_point(Head(s))) \o as_bytes(Tail(s))

\* the text of a byte sequence, decoded from the front; bytes that are not the
\* encoding of a char of the model are the text "invalid"
RECURSIVE from_utf8(_)
from_utf8(bytes) ==
    IF bytes = <<>> THEN <<>>
    ELSE LET b == Head(bytes)
             width == IF b < 128 THEN 1 ELSE IF b \div 32 = 6 THEN 2
                      ELSE IF b \div 16 = 14 THEN 3 ELSE 4
             valid == {c \in EditChars :
                         /\ Len(bytes) >= width
                         /\ encode_utf8(code_point(c)) = SubSeq(bytes, 1, width)}
         IN  IF valid = {} THEN <<"invalid">>
             ELSE <<CHOOSE c \in valid : TRUE>>
                  \o from_utf8(SubSeq(bytes, width + 1, Len(bytes)))

\* String::push
string_push(bytes, c) == bytes \o encode_utf8(code_point(c))

\* mutant: the last byte is removed
string_pop_byte(bytes) ==
    IF bytes = <<>> THEN <<>> ELSE SubSeq(bytes, 1, Len(bytes) - 1)

\* String::pop: the last char starts at the last byte that is not a
\* continuation byte (10xxxxxx)
string_pop(bytes) ==
    IF bytes = <<>> THEN <<>>
    ELSE LET starts == {i \in 1..Len(bytes) : bytes[i] \div 64 # 2}
             start == CHOOSE i \in starts : \A j \in starts : j <= i
         IN  SubSeq(bytes, 1, start - 1)

\* AppState::push_char / pop_char
push_char(s, c) == from_utf8(string_push(as_bytes(s), c))
pop_char(s) == from_utf8(string_pop(as_bytes(s)))

InitEdit ==
    /\ InitHistIdle /\ InitCacheIdle /\ InitLoopIdle
    /\ input = <<>>
    /\ exit = FALSE
    /\ last_error = "none"
    /\ scroll_offset = 0
    /\ visible_height = 2
    /\ app_data = Document
    /\ sc = [op |-> "new"]

\* Action::Input(c)
EditInputChar(c) ==
    /\ Len(input) < MaxChars
    /\ input' = push_char(input, c)
    /\ scroll_offset' = reset_scroll
    /\ sc' = Dispatched("Input", c)
    /\ UNCHANGED <<exit, last_error, visible_height, app_data, histVars, cacheVars,
                   loopVars>>

\* Action::Backspace
EditBackspace ==
    /\ input' = IF ~is_empty(input) THEN pop_char(input) ELSE input
    /\ scroll_offset' = reset_scroll
    /\ sc' = [op |-> "Backspace", c |-> "",
              before |-> Dispatched("Backspace", "").before,
              after_input |-> sc.op = "Input",
              typed |-> IF sc.op = "Input" THEN sc.c ELSE "",
              before_input |-> IF sc.op = "Input" THEN sc.before
                               ELSE Dispatched("Backspace", "").before]
    /\ UNCHANGED <<exit, last_error, visible_height, app_data, histVars, cacheVars,
                   loopVars>>

NextEdit ==
    \/ \E c \in EditChars : EditInputChar(c)
    \/ EditBackspace
    \/ ScrollUp /\ UNCHANGED loopVars
    \/ ScrollDown /\ UNCHANGED loopVars

SpecEdit == InitEdit /\ [][NextEdit]_vars

(***************************************************************************)
(* SpecContent: the content of an App and of an EnhancedApp built          *)
(* with_cache() over the same document, asked for while the input changes: *)
(* execute_current_query, generate_current_content and get_total_lines of  *)
(* either, and JaqQueryExecutor::execute with the document and the input.  *)
(* view keeps the last call: its receiver, the input, the value returned,  *)
(* and the cache and the executor's call counts as the call found them.    *)
(***************************************************************************)
InitContent ==
    /\ InitHistIdle /\ InitCacheIdle
    /\ input = <<>>
    /\ exit = FALSE
    /\ last_error = "none"
    /\ visible_height = 0
    /\ app_data \in CacheDocs
    /\ scroll_offset = 0
    /\ sc = [op |-> "new"]
    /\ pc = "idle"
    /\ key_event = NoEvent
    /\ view = [op |-> "new"]

\* the input line is edited
EditInput(text) ==
    /\ input' = text
    /\ UNCHANGED <<exit, last_error, visible_height, app_data, scroll_offset, sc,
                   histVars, cacheVars, loopVars>>

Viewed(op, app, value) ==
    [op |-> op, app |-> app, input |-> input, value |-> value,
     cache_before |-> cache, spy_before |-> spy]

AppExecuteCurrentQuery ==
    /\ view' = Viewed("execute_current_query", "App", execute_query(app_data, input))
    /\ UNCHANGED <<sessionVars, scroll_offset, sc, histVars, cacheVars, pc, key_event>>

AppGenerateCurrentContent ==
    /\ view' = Viewed("generate_current_content", "App",
                      generate_current_content(app_data, input))
    /\ UNCHANGED <<sessionVars, scroll_offset, sc, histVars, cacheVars, pc, key_event>>

AppGetTotalLines ==
    /\ view' = Viewed("get_total_lines", "App", get_total_lines(app_data, input))
    /\ UNCHANGED <<sessionVars, scroll_offset, sc, histVars, cacheVars, pc, key_event>>

\* mutant: the executor leaves its first result in the place of the document
JaqExecuteReplacingDocument ==
    LET r == execute(app_data, input)
    IN  /\ view' = Viewed("execute", "JaqQueryExecutor", r)
        /\ app_data' = IF r.ok /\ r.values # <<>> THEN r.values[1] ELSE app_data
        /\ UNCHANGED <<input, exit, last_error, visible_height, scroll_offset, sc,
                       histVars, cacheVars, pc, key_event>>

JaqExecute ==
    /\ view' = Viewed("execute", "JaqQueryExecutor", execute(app_data, input))
    /\ UNCHANGED <<sessionVars, scroll_offset, sc, histVars, cacheVars, pc, key_event>>

\* A call on the EnhancedApp that gave r: the cache it leaves, and what the
\* wrapped executor saw of it
Enhanced(op, r) ==
    LET p == <<app_data, input>>
    IN  /\ r.invoked => spy[p].calls < MaxInner
        /\ cache' = r.cache
        /\ spy' = IF ~r.asked THEN spy
                  ELSE [spy EXCEPT ![p] =
                           [calls |-> @.calls + (IF r.invoked THEN 1 ELSE 0),
                            asked |-> TRUE,
                            first |-> IF @.asked THEN @.first
                                      ELSE IF r.invoked THEN execute(app_data, input)
                                      ELSE Ok(cache[cache_key(app_data, input)])]]
        /\ view' = Viewed(op, "EnhancedApp", r.value)
        /\ UNCHANGED <<sessionVars, scroll_offset, sc, histVars, last_exec, pc,
                       key_event, borrowVars>>

EnhancedExecuteCurrentQuery ==
    Enhanced("execute_current_query",
             enhanced_execute_current_query(cache, app_data, input))

EnhancedGenerateCurrentContent ==
    Enhanced("generate_current_content",
             enhanced_generate_current_content(cache, app_data, input))

EnhancedGetTotalLines ==
    Enhanced("get_total_lines", enhanced_get_total_lines(cache, app_data, input))

NextContent ==
    \/ \E text \in CacheQueries : EditInput(text)
    \/ AppExecuteCurrentQuery
    \/ AppGenerateCurrentContent
    \/ AppGetTotalLines
    \/ JaqExecute
    \/ EnhancedExecuteCurrentQuery
    \/ EnhancedGenerateCurrentContent
    \/ EnhancedGetTotalLines

SpecContent == InitContent /\ [][NextContent]_vars

(***************************************************************************)
(* SpecRun: App::run (src/src/ui/app.rs), statement by statement.  pc is   *)
(* the statement the loop is at: "while" (the test of should_exit), "draw" *)
(* (terminal.draw), "read" (event::read), "handle" (handle_events, for a   *)
(* key event), and "Ok" or "Err" once run has returned.  terminal.draw and *)
(* event::read are I/O: either may fail, and run returns the error.  The   *)
(* terminal is taken to give the result an area of visible_height lines,   *)
(* and the session to last less than a day, the unit of the clock.  view   *)
(* is the last frame drawn.                                                *)
(***************************************************************************)
Resize == [event |-> "Resize"]
RunEvents ==
    {KeyEvent("Esc", "", {}, "Press"),
     KeyEvent("Up", "", {}, "Press"), KeyEvent("Down", "", {}, "Press"),
     KeyEvent("Char", ".", {}, "Press"), KeyEvent("Char", "a", {}, "Press"),
     KeyEvent("Char", " ", {}, "Press"), KeyEvent("Enter", "", {}, "Press"),
     KeyEvent("Backspace", "", {}, "Press"), KeyEvent("Tab", "", {}, "Press"),
     KeyEvent("F1", "", {}, "Press"), Resize}

\* Widget::render for &App: the lines of the result paragraph
render(err, d, text, offset, available_height) ==
    IF err # "none" THEN <<[indent |-> 0, toks |-> <<"Error: ", err>>]>>
    ELSE LET r == execute_query(d, text)
             lines == IF r.ok THEN format_pretty(r.result)
                      ELSE IF is_empty(text) THEN to_string_pretty(d)
                      ELSE <<>>
         IN  SubSeq(lines, offset + 1, Min(Len(lines), offset + available_height))

\* update(self, action): the arm of the action
update_with(action) ==
    CASE action.kind = "Quit" -> Quit
      [] action.kind = "Input" -> Input(action.c)
      [] action.kind = "Backspace" -> Backspace
      [] action.kind = "Clear" -> Clear
      [] action.kind = "ScrollUp" -> ScrollUp
      [] action.kind = "ScrollDown" -> ScrollDown
      [] action.kind = "Tab" -> Tab
      [] action.kind = "None" -> None

RunConfig == [data |-> Document, visible_height |-> 2, max_entries |-> DefaultMaxEntries]

InitRun ==
    /\ InitCacheIdle
    /\ input = <<>>
    /\ exit = FALSE
    /\ last_error = "none"
    /\ scroll_offset = 0
    /\ visible_height = RunConfig.visible_height
    /\ app_data = RunConfig.data
    /\ max_entries = RunConfig.max_entries
    /\ entries = EmptyMap
    /\ now = 0
    /\ hist = [op |-> "new"]
    /\ sugg = [called |-> FALSE]
    /\ sc = [op |-> "new"]
    /\ pc = "while"
    /\ key_event = NoEvent
    /\ view = [op |-> "new"]

\* mutant: the loop does not test exit
LoopTestIgnoringExit ==
    /\ pc = "while"
    /\ pc' = "draw"
    /\ UNCHANGED <<sessionVars, scroll_offset, histVars, cacheVars, sc, key_event, view>>

\* while !self.should_exit() ... Ok(())
LoopTest ==
    /\ pc = "while"
    /\ pc' = IF exit THEN "Ok" ELSE "draw"
    /\ UNCHANGED <<sessionVars, scroll_offset, histVars, cacheVars, sc, key_event, view>>

\* mutant: a failing query is kept as the last error when the frame is drawn
DrawKeepingError ==
    /\ pc = "draw"
    /\ view' = [op |-> "draw",
                lines |-> render(last_error, app_data, input, scroll_offset,
                                 visible_height)]
    /\ last_error' = IF ~execute_query(app_data, input).ok /\ ~is_empty(input)
                     THEN execute_query(app_data, input).err ELSE last_error
    /\ pc' = "read"
    /\ UNCHANGED <<input, exit, visible_height, app_data, scroll_offset, histVars,
                   cacheVars, sc, key_event>>

\* terminal.draw(|frame| self.draw(frame))?
Draw ==
    /\ pc = "draw"
    /\ view' = [op |-> "draw",
                lines |-> render(last_error, app_data, input, scroll_offset,
                                 visible_height)]
    /\ pc' = "read"
    /\ UNCHANGED <<sessionVars, scroll_offset, histVars, cacheVars, sc, key_event>>

DrawFails ==
    /\ pc = "draw"
    /\ pc' = "Err"
    /\ UNCHANGED <<sessionVars, scroll_offset, histVars, cacheVars, sc, key_event, view>>

\* mutant: an event that is not a key goes straight to the next frame
ReadSkippingTest(ev) ==
    /\ pc = "read"
    /\ ev.event = "Key" =>
          LET action == get_action(ev)
          IN  /\ action.kind = "Input" => Append(input, action.c) \in TypedInputs
              /\ (action.kind = "Clear" /\ input \in DOMAIN entries) =>
                    entries[input].count < MaxCount
    /\ key_event' = ev
    /\ pc' = IF ev.event = "Key" THEN "handle" ELSE "draw"
    /\ UNCHANGED <<sessionVars, scroll_offset, histVars, cacheVars, sc, view>>

\* if let Event::Key(key_event) = event::read()?  The keys are those that
\* keep the input line and the counts within the bounds of the model.
Read(ev) ==
    /\ pc = "read"
    /\ ev.event = "Key" =>
          LET action == get_action(ev)
          IN  /\ action.kind = "Input" => Append(input, action.c) \in TypedInputs
              /\ (action.kind = "Clear" /\ input \in DOMAIN entries) =>
                    entries[input].count < MaxCount
    /\ key_event' = ev
    /\ pc' = IF ev.event = "Key" THEN "handle" ELSE "while"
    /\ UNCHANGED <<sessionVars, scroll_offset, histVars, cacheVars, sc, view>>

ReadFails ==
    /\ pc = "read"
    /\ pc' = "Err"
    /\ UNCHANGED <<sessionVars, scroll_offset, histVars, cacheVars, sc, key_event, view>>

\* self.handle_events(key_event)?: get_action, then update
handle_events ==
    /\ pc = "handle"
    /\ update_with(get_action(key_event))
    /\ pc' = "while"
    /\ key_event' = NoEvent
    /\ UNCHANGED view

NextRun ==
    \/ LoopTest
    \/ Draw
    \/ DrawFails
    \/ \E ev \in RunEvents : Read(ev)
    \/ ReadFails
    \/ handle_events

SpecRun == InitRun /\ [][NextRun]_vars

\* run is not suspended for ever at the test of its loop
SpecRunLive == SpecRun /\ WF_vars(LoopTest)

(***************************************************************************)
(* SpecKeys: get_action called with the key events of a keyboard, one      *)
(* after the other, as test_key_action_mapping does; view keeps the last   *)
(* key and the action it was mapped to.                                    *)
(***************************************************************************)
InitKeys ==
    /\ InitSessionIdle /\ InitHistIdle /\ InitCacheIdle /\ InitLoopIdle
    /\ scroll_offset = 0
    /\ sc = [op |-> "new"]

GetActionCall(k) ==
    /\ key_event' = k
    /\ view' = [op |-> "get_action", key_event |-> k, action |-> get_action(k)]
    /\ UNCHANGED <<pc, sessionVars, histVars, cacheVars, scroll_offset, sc>>

NextKeys == \E k \in KeyEvents : GetActionCall(k)

SpecKeys == InitKeys /\ [][NextKeys]_vars

(***************************************************************************)
(* SpecRanking: the scenario of test_suggestion_ranking                    *)
(* (src/src/history/mod.rs): `.name` and `.users[0].name` are recorded on  *)
(* a QueryHistory::new(100), each up to RankingRecords times and in any    *)
(* order while the clock runs, and get_suggestions is called with limit    *)
(* RankingLimit.                                                           *)
(***************************************************************************)
Name == <<".", "n", "a", "m", "e">>
UsersName == <<".", "u", "s", "e", "r", "s", "[", "0", "]", ".", "n", "a", "m", "e">>
RankingQueries == {Name, UsersName}
RankingPrefixes == {<<".", "n">>, <<".", "u">>}
RankingRecords == 3
RankingLimit == 5

InitRanking ==
    /\ InitSessionIdle /\ InitCacheIdle /\ InitLoopIdle
    /\ scroll_offset = 0
    /\ sc = [op |-> "new"]
    /\ entries = EmptyMap
    /\ max_entries = DefaultMaxEntries
    /\ now = 0
    /\ hist = [op |-> "new"]
    /\ sugg = [called |-> FALSE]

RecordRanked(query) ==
    /\ query \in DOMAIN entries => entries[query].count < RankingRecords
    /\ entries' \in {record_query(entries, order, query, max_entries, now) :
                       order \in Orders(DOMAIN upsert(entries, query, now))}
    /\ sugg' = [called |-> FALSE]
    /\ UNCHANGED <<loopVars, max_entries, now, hist, sessionVars, cacheVars, scroll_offset, sc>>

NextRanking ==
    \/ \E query \in RankingQueries : RecordRanked(query)
    \/ Tick
    \/ \E prefix \in RankingPrefixes : GetSuggestionsCall(prefix, RankingLimit)

SpecRanking == InitRanking /\ [][NextRanking]_vars

\* `.name` has been recorded three times and `.users[0].name` once, and
\* get_suggestions(".n", 5) has been called.
RankingScenario ==
    /\ DOMAIN entries = {Name, UsersName}
    /\ entries[Name].count = 3
    /\ entries[UsersName].count = 1
    /\ sugg.called /\ sugg.prefix = <<".", "n">>

\* C12 as claimed: in the scenario get_suggestions(".n", 5) returns both texts
\* and `.name` scores strictly higher than `.users[0].name`.
C12_ReturnsBothTexts ==
    RankingScenario =>
        /\ {sugg.result[i].text : i \in 1..Len(sugg.result)} = {Name, UsersName}
        /\ calculate_score(entries[Name], now)
             > calculate_score(entries[UsersName], now)

\* C12 as amended: in the scenario get_suggestions(".n", 5) returns `.name`
\* alone, `.users[0].name` not starting with `.n`, and the score of the entry
\* of `.name` is strictly higher than that of the entry of `.users[0].name`.
C12_ReturnsNameOnly ==
    RankingScenario =>
        /\ Len(sugg.result) = 1
        /\ sugg.result[1].text = Name
        /\ sugg.result[1].score = calculate_score(entries[Name], now)
        /\ calculate_score(entries[Name], now)
             > calculate_score(entries[UsersName], now)

C12_Witness ==
    /\ RankingScenario
    /\ now = 1 /\ entries[Name].last_used = 0 /\ entries[UsersName].last_used = 1
    /\ Len(sugg.result) = 1 /\ sugg.result[1].text = Name

(***************************************************************************)
(* SpecDecay: the scenario of test_query_history_ranking                   *)
(* (src/tests/integration_tests.rs): `.test` and `.testing` are recorded   *)
(* on the history of a session, in any order and with pauses of any        *)
(* length in between, and the suggestions for `.te` are asked for.         *)
(*                                                                         *)
(* The score is an f64 sum of the count term and the decay term, and the   *)
(* sum keeps 53 bits: 0.5 * exp(-37) is less than half an ulp of 1.0, so   *)
(* after 37 days the decay term is rounded away (2 * 0.5 + exp(-37) * 0.5  *)
(* is 1.0).  The model's sum keeps three decimals and loses the term after *)
(* 7 days; Idle is a pause long enough for that.                           *)
(***************************************************************************)
Test == <<".", "t", "e", "s", "t">>
Testing == <<".", "t", "e", "s", "t", "i", "n", "g">>
DecayQueries == {Test, Testing}
DecayPrefix == <<".", "t", "e">>

InitDecay == InitRanking

RecordDecay(query) ==
    /\ query \in DOMAIN entries => entries[query].count < MaxCount
    /\ entries' \in {record_query(entries, order, query, max_entries, now) :
                       order \in Orders(DOMAIN upsert(entries, query, now))}
    /\ sugg' = [called |-> FALSE]
    /\ UNCHANGED <<loopVars, max_entries, now, hist, sessionVars, cacheVars, scroll_offset, sc>>

Idle ==
    /\ now <= MaxTime
    /\ now' = now + IdleDays
    /\ sugg' = [called |-> FALSE]
    /\ UNCHANGED <<loopVars, entries, max_entries, hist, sessionVars, cacheVars,
                   scroll_offset, sc>>

\* get_suggestions(prefix, limit) and get_best_suggestion() with the input
\* prefix, on the same unmodified map and so with the same iteration order
BestSuggestionCall(prefix, limit) ==
    /\ \E order \in Orders(DOMAIN entries) :
          sugg' = [called |-> TRUE, prefix |-> prefix, limit |-> limit,
                   result |-> get_suggestions(entries, order, prefix, limit, now),
                   best |-> get_best_suggestion(entries, order, prefix, now)]
    /\ UNCHANGED <<loopVars, entries, max_entries, now, hist, sessionVars, cacheVars,
                   scroll_offset, sc>>

NextDecay ==
    \/ \E query \in DecayQueries : RecordDecay(query)
    \/ Tick
    \/ Idle
    \/ \E limit \in Limits : BestSuggestionCall(DecayPrefix, limit)

SpecDecay == InitDecay /\ [][NextDecay]_vars

(***************************************************************************)
(* SpecBest: App::get_best_suggestion called with the input of a session   *)
(* whose history record_query fills while the clock runs; the texts and    *)
(* inputs are those of SpecSuggest, with a two-byte character among them.  *)
(***************************************************************************)
BestLimit == 1

NextBest ==
    \/ \E query \in SuggestQueries : RecordQuery(query)
    \/ Tick
    \/ \E prefix \in Prefixes : BestSuggestionCall(prefix, BestLimit)

SpecBest == InitSuggest /\ [][NextBest]_vars

\* C19 as claimed: get_best_suggestion returns none when the input has fewer
\* than 2 characters or no entry strictly extends it, and otherwise the text
\* of the first item of get_suggestions(input, 1), a matching entry that no
\* matching entry outscores.
C19_BestSuggestionOfTwoCharacters ==
    (sugg.called /\ sugg.limit = 1) =>
        LET text == sugg.prefix
            matching == {q \in DOMAIN entries : starts_with(q, text) /\ q # text}
        IN  IF Len(text) < 2 \/ matching = {}
            THEN ~sugg.best.some
            ELSE /\ sugg.best.some
                 /\ sugg.result # <<>>
                 /\ sugg.best.text = sugg.result[1].text
                 /\ sugg.best.text \in matching
                 /\ \A q \in matching :
                       calculate_score(entries[sugg.best.text], now)
                         >= calculate_score(entries[q], now)

\* C13 as claimed: of two entries that match the prefix the one with the
\* strictly higher count is ranked before the other by get_suggestions (the
\* other is never listed without it or ahead of it) and the other is not what
\* get_best_suggestion returns, whatever their last_used times.
C13_HigherCountRankedFirst ==
    (sugg.called /\ sugg.limit > 0) =>
        LET r == sugg.result
            Listed(q) == \E i \in 1..Len(r) : r[i].text = q
            At(q) == CHOOSE i \in 1..Len(r) : r[i].text = q
            matching == {q \in DOMAIN entries :
                           starts_with(q, sugg.prefix) /\ q # sugg.prefix}
        IN  \A p, q \in matching :
                entries[p].count > entries[q].count =>
                    /\ Listed(q) => (Listed(p) /\ At(p) < At(q))
                    /\ ~(sugg.best.some /\ sugg.best.text = q)

\* C1 as claimed: after every action of a session scroll_offset lies between 0
\* and max(0, total_lines - visible_height), total_lines being the number of
\* lines of the content generated from the input as it stands.
C1_ScrollOffsetWithinContent ==
    /\ scroll_offset >= 0
    /\ scroll_offset <= Max(0, get_total_lines(app_data, input) - visible_height)

\* C14 as claimed: Clear leaves input empty, scroll_offset 0 and last_error
\* absent; after a non-blank input the history holds the input's entry, new
\* with count 1 or with its count raised by 1; after a blank one the history
\* is as before.
C14_CommitClearsAndRecords ==
    sc.op = "Clear" =>
        LET b == sc.before
        IN  /\ input = <<>> /\ scroll_offset = 0 /\ last_error = "none"
            /\ IF ~is_empty(trim(b.input))
               THEN /\ b.input \in DOMAIN entries
                    /\ entries[b.input].count =
                         IF b.input \in DOMAIN b.entries
                         THEN b.entries[b.input].count + 1 ELSE 1
               ELSE entries = b.entries

\* C14 as amended: the same, except that after a non-blank input the history,
\* having recorded the input, is cut back to max_entries entries, and the
\* entry just recorded may be among those evicted; it is present whenever the
\* history had room for it or held the text already, and the entries of the
\* other texts are evicted or unchanged.
C14_CommitClearsAndRecordsUnlessEvicted ==
    sc.op = "Clear" =>
        LET b == sc.before
            recorded == DOMAIN b.entries \cup {b.input}
        IN  /\ input = <<>> /\ scroll_offset = 0 /\ last_error = "none"
            /\ IF ~is_empty(trim(b.input))
               THEN /\ DOMAIN entries \subseteq recorded
                    /\ Cardinality(DOMAIN entries)
                         = Min(Cardinality(recorded), max_entries)
                    /\ \A q \in DOMAIN entries \ {b.input} : entries[q] = b.entries[q]
                    /\ b.input \in DOMAIN entries =>
                         entries[b.input].count =
                           IF b.input \in DOMAIN b.entries
                           THEN b.entries[b.input].count + 1 ELSE 1
                    /\ Cardinality(recorded) <= max_entries => b.input \in DOMAIN entries
               ELSE entries = b.entries

C14_Witness ==
    /\ sc.op = "Clear" /\ sc.before.input = <<".", "a">>
    /\ sc.before.scroll_offset = 1
    /\ DOMAIN sc.before.entries = {<<".">>, <<".", "a">>}
    /\ sc.before.entries[<<".", "a">>].count = 1
    /\ entries[<<".", "a">>].count = 2
    /\ input = <<>> /\ scroll_offset = 0

\* C15: a record_query call with an empty or whitespace-only text leaves the
\* history as it is: the same entries with the same counts and timestamps,
\* none created and none evicted.
C15_BlankQueryIgnored ==
    [][\A query \in HistQueries :
          (is_empty(trim(query)) /\ RecordQueryCall(query)) => entries' = entries]_vars

C15_Witness ==
    /\ hist.op = "record" /\ hist.query = <<" ">>
    /\ Cardinality(DOMAIN entries) = 2
    /\ hist.removed = EmptyMap

\* C16: Input(c) leaves input equal to the input it found with c appended
\* and scroll_offset 0, and exit, last_error and the history as it found them.
C16_InputAppendsAndResetsScroll ==
    sc.op = "Input" =>
        /\ input = Append(sc.before.input, sc.c)
        /\ scroll_offset = 0
        /\ exit = sc.before.exit
        /\ last_error = sc.before.last_error
        /\ entries = sc.before.entries

C16_Witness ==
    /\ sc.op = "Input" /\ sc.c = "a"
    /\ sc.before.input = <<".", "a">> /\ sc.before.scroll_offset = 2
    /\ input = <<".", "a", "a">> /\ scroll_offset = 0
    /\ entries # EmptyMap

\* C17: Backspace leaves a non-empty input without its last character and an
\* empty input empty; either way scroll_offset is 0 and no error is set.
C17_BackspaceRemovesLastChar ==
    sc.op = "Backspace" =>
        LET old == sc.before.input
        IN  /\ old # <<>> => (Len(input) = Len(old) - 1 /\ old = Append(input, old[Len(old)]))
            /\ old = <<>> => input = <<>>
            /\ scroll_offset = 0
            /\ last_error = "none"

C17_Witness ==
    /\ sc.op = "Backspace"
    /\ sc.before.input = <<>> /\ sc.before.scroll_offset = 1
    /\ input = <<>> /\ scroll_offset = 0

\* C18: Tab leaves input equal to a best suggestion for the input it found (an
\* entry that strictly extends it and that no other such entry outscores) when
\* there is one, and as it found it when there is none; either way
\* scroll_offset, exit, last_error and the history are as it found them.
C18_TabAppliesBestSuggestion ==
    sc.op = "Tab" =>
        LET b == sc.before
            matching == IF len(b.input) < 2 THEN {}
                        ELSE {q \in DOMAIN b.entries :
                                starts_with(q, b.input) /\ q # b.input}
        IN  /\ matching = {} => input = b.input
            /\ matching # {} =>
                  /\ input \in matching
                  /\ \A q \in matching :
                        calculate_score(b.entries[input], now)
                          >= calculate_score(b.entries[q], now)
            /\ scroll_offset = b.scroll_offset
            /\ exit = b.exit
            /\ last_error = b.last_error
            /\ entries = b.entries

C18_Witness ==
    /\ sc.op = "Tab"
    /\ sc.before.input = <<".", "a">> /\ input = <<".", "a", "a">>
    /\ sc.before.scroll_offset = 1 /\ scroll_offset = 1

\* C20: Quit leaves exit true and input, scroll_offset, last_error and the
\* history as it found them; and no step of the dispatcher takes exit from
\* true to false.
C20_QuitSetsExitForGood ==
    /\ [](sc.op = "Quit" =>
            /\ exit
            /\ input = sc.before.input
            /\ scroll_offset = sc.before.scroll_offset
            /\ last_error = sc.before.last_error
            /\ entries = sc.before.entries)
    /\ [][exit => exit']_vars

C20_Witness ==
    /\ sc.op = "Clear" /\ sc.before.exit /\ exit
    /\ sc.before.input = <<".", "a">> /\ input = <<>>
    /\ entries # EmptyMap

\* C29: no execute call removes a key from the cache or changes the sequence
\* stored under it: every key of the cache is a key of the cache after the
\* call, with the same sequence.
C29_CacheEntriesKept ==
    [][\A key \in DOMAIN cache : key \in DOMAIN cache' /\ cache'[key] = cache[key]]_vars

C29_Witness ==
    /\ last_exec.called /\ last_exec.invoked /\ last_exec.outcome.ok
    /\ last_exec.cache_before # EmptyMap
    /\ Cardinality(DOMAIN cache) = Cardinality(DOMAIN last_exec.cache_before) + 1
    /\ \A key \in DOMAIN last_exec.cache_before :
          key \in DOMAIN cache /\ cache[key] = last_exec.cache_before[key]

\* C27: None leaves input, scroll_offset, exit, last_error and the history as
\* it found them.
C27_NoneChangesNothing ==
    sc.op = "None" =>
        /\ input = sc.before.input
        /\ scroll_offset = sc.before.scroll_offset
        /\ exit = sc.before.exit
        /\ last_error = sc.before.last_error
        /\ entries = sc.before.entries

C27_Witness ==
    /\ sc.op = "None"
    /\ input = <<".", "a">> /\ scroll_offset = 2 /\ exit /\ entries # EmptyMap
    /\ sc.before = [input |-> input, exit |-> exit, last_error |-> last_error,
                    scroll_offset |-> scroll_offset, entries |-> entries]

\* C26: get_action maps escape and control-modified c to Quit, the up and down
\* arrows to ScrollUp and ScrollDown, the newline character and the enter key
\* to Clear, every other character, whatever its modifiers, to Input of that
\* character, backspace to Backspace, tab to Tab and every other key to None.
C26_KeyMapping ==
    view.op = "get_action" =>
        LET k == view.key_event
            control_c == k.code = "Char" /\ k.c = "c" /\ "CONTROL" \in k.modifiers
        IN  /\ k.code = "Esc" => view.action = Action("Quit", "")
            /\ control_c => view.action = Action("Quit", "")
            /\ k.code = "Up" => view.action = Action("ScrollUp", "")
            /\ k.code = "Down" => view.action = Action("ScrollDown", "")
            /\ (k.code = "Char" /\ k.c = "\n") => view.action = Action("Clear", "")
            /\ k.code = "Enter" => view.action = Action("Clear", "")
            /\ (k.code = "Char" /\ k.c # "\n" /\ ~control_c) =>
                  view.action = Action("Input", k.c)
            /\ k.code = "Backspace" => view.action = Action("Backspace", "")
            /\ k.code = "Tab" => view.action = Action("Tab", "")
            /\ k.code \notin {"Esc", "Char", "Up", "Down", "Enter", "Backspace", "Tab"} =>
                  view.action = Action("None", "")

C26_Witness ==
    /\ view.op = "get_action"
    /\ view.key_event = KeyEvent("Char", "c", {"CONTROL", "SHIFT"}, "Press")
    /\ view.action = Action("Quit", "")

\* C21: once exit is true App::run is at the test of its loop or has
\* returned Ok: it reads no event, applies no transition and draws no frame
\* any more, its only step is to return Ok, and it does return.
C21_LoopStopsAfterQuit ==
    /\ [](exit => pc \in {"while", "Ok"})
    /\ [][exit => /\ pc' = "Ok"
                  /\ UNCHANGED <<input, exit, last_error, scroll_offset, entries,
                                 key_event, view, sc>>]_vars
    /\ (exit ~> pc = "Ok")

C21_Witness ==
    /\ pc = "Ok" /\ exit /\ sc.op = "Quit"
    /\ sc.before.input = <<".", "a">> /\ input = <<".", "a">>
    /\ view.op = "draw" /\ view.lines # <<>>
    /\ entries # EmptyMap

\* C28: last_error is absent in every state of a session, whatever was
\* dispatched and drawn, a failing query included.
C28_LastErrorAbsent == last_error = "none"

C28_Witness ==
    /\ pc = "read" /\ view.op = "draw" /\ view.lines = <<>>
    /\ ~is_empty(input) /\ ~execute_query(app_data, input).ok
    /\ sc.op = "Input"
    /\ last_error = "none"

\* C30: the steps of App::run follow one another in the order draw, read,
\* handle: an event is read only after a frame was drawn, a key event is
\* handled next, by the one action get_action maps it to, before anything else
\* happens, the session changes in no other step, and the frame in front of
\* the next read is the content of the session as that action left it.
C30_StrictOrder ==
    /\ [][/\ pc = "while" => pc' \in {"draw", "Ok"}
          /\ pc = "draw" => pc' \in {"read", "Err"}
          /\ pc = "read" => pc' \in {"handle", "while", "Err"}
          /\ pc = "handle" => (pc' = "while" /\ sc'.op = get_action(key_event).kind)
          /\ pc # "handle" => UNCHANGED <<input, exit, last_error, scroll_offset,
                                          entries, sc>>
          /\ pc # "read" => key_event' \in {key_event, NoEvent}
          /\ pc # "draw" => view' = view]_vars
    /\ [](pc = "handle" <=> key_event # NoEvent /\ key_event.event = "Key")
    /\ [](pc = "read" =>
            view = [op |-> "draw",
                    lines |-> render(last_error, app_data, input, scroll_offset,
                                     visible_height)])

C30_Witness ==
    /\ pc = "read" /\ sc.op = "Input" /\ sc.c = "a"
    /\ input = <<".", "a">>
    /\ view.op = "draw" /\ Len(view.lines) = 2

\* C22: generate_current_content, of App and of EnhancedApp, is the document
\* pretty-printed when the input is empty, the formatted result when the
\* input is not empty and its execution succeeds, and the empty text, not the
\* document, when it fails; get_total_lines is the number of lines of that
\* content, 0 for a failing input that is not empty.
C22_ContentOfInput ==
    view.op \in {"generate_current_content", "get_total_lines"} =>
        LET text == view.input
            executed == execute_query(app_data, text)
            content == IF text = <<>> THEN to_string_pretty(app_data)
                       ELSE IF executed.ok THEN format_pretty(executed.result)
                       ELSE <<>>
        IN  /\ view.op = "generate_current_content" => view.value = content
            /\ view.op = "get_total_lines" => view.value = Len(content)
            /\ (text # <<>> /\ ~executed.ok) =>
                  /\ view.op = "generate_current_content" =>
                        (view.value = <<>> /\ view.value # to_string_pretty(app_data))
                  /\ view.op = "get_total_lines" => view.value = 0

C22_Witness ==
    /\ view.op = "get_total_lines" /\ view.app = "EnhancedApp"
    /\ view.input = <<"a">> /\ ~execute_query(app_data, <<"a">>).ok
    /\ view.value = 0
    /\ view.cache_before # EmptyMap

\* C23: a successful execution with no value is Empty and is rendered as the
\* text null, with one value v it is Single(v) and rendered as v
\* pretty-printed, with two or more it is Multiple of the values in their
\* order and rendered as their sequence pretty-printed.
C23_ResultByNumberOfValues ==
    (view.op \in {"execute_current_query", "generate_current_content"}
       /\ view.input # <<>> /\ execute(app_data, view.input).ok) =>
        LET values == execute(app_data, view.input).values
            null == <<[indent |-> 0, toks |-> <<"null">>]>>
        IN  IF view.op = "execute_current_query"
            THEN /\ view.value.ok
                 /\ Len(values) = 0 => view.value.result = Empty
                 /\ Len(values) = 1 => view.value.result = Single(values[1])
                 /\ Len(values) >= 2 => view.value.result = Multiple(values)
            ELSE /\ Len(values) = 0 => view.value = null
                 /\ Len(values) = 1 => view.value = to_string_pretty(values[1])
                 /\ Len(values) >= 2 => view.value = to_string_pretty(JArr(values))

C23_Witness ==
    /\ view.op = "generate_current_content" /\ view.app = "EnhancedApp"
    /\ view.input = <<".", ".">>
    /\ Len(execute(app_data, view.input).values) >= 2
    /\ view.value = to_string_pretty(JArr(execute(app_data, view.input).values))

\* C24: with the empty text JaqQueryExecutor::execute, JsonData::execute_query
\* and execute_current_query of App and of EnhancedApp fail with
\* QueryCompile, and the EnhancedApp has neither called its executor nor
\* stored anything in the cache.
C24_EmptyQueryFails ==
    (view.op \in {"execute", "execute_current_query"} /\ view.input = <<>>) =>
        /\ ~view.value.ok
        /\ view.value.err = "QueryCompile"
        /\ ~execute_query(app_data, <<>>).ok
        /\ execute_query(app_data, <<>>).err = "QueryCompile"
        /\ view.app = "EnhancedApp" =>
              (cache = view.cache_before /\ spy = view.spy_before)

C24_Witness ==
    /\ view.op = "execute_current_query" /\ view.app = "EnhancedApp"
    /\ view.input = <<>>
    /\ view.value.err = "QueryCompile"
    /\ cache # EmptyMap /\ cache = view.cache_before /\ spy = view.spy_before

\* C25 as claimed: when the query compiles and its evaluation yields an error
\* item, execute and execute_query fail with QueryExecution.
C25_EvaluationFailureIsAnError ==
    (view.op \in {"execute", "execute_current_query"}
       /\ view.app \in {"JaqQueryExecutor", "App"}
       /\ view.input # <<>>
       /\ jaq_run(app_data, view.input).compiled
       /\ \E i \in DOMAIN jaq_run(app_data, view.input).stream :
             ~jaq_run(app_data, view.input).stream[i].ok) =>
        (~view.value.ok /\ view.value.err = "QueryExecution")

\* C32 as claimed: right after record_query(q) with a non-blank q on a history
\* with max_entries >= 1 the history holds an entry for q; the call evicts
\* entries of other texts only.
C32_NewQueryRetained ==
    (hist.op = "record" /\ ~is_empty(trim(hist.query)) /\ max_entries >= 1) =>
        /\ hist.query \in DOMAIN entries
        /\ hist.query \notin DOMAIN hist.removed

\* C32 as amended: right after record_query(q) with a non-blank q on a history
\* with max_entries >= 1 the history holds an entry for q if it held one
\* before, if it had room for one more, or if an entry of another text scores
\* strictly lower than the new entry of q; an entry the call evicts is of
\* another text or is the entry the call has just created for q.
C32_NewQueryRetainedUnlessLowest ==
    (hist.op = "record" /\ ~is_empty(trim(hist.query)) /\ max_entries >= 1) =>
        LET q == hist.query
            created == [query |-> q, count |-> 1, last_used |-> hist.at,
                        first_used |-> hist.at]
            others == [k \in (DOMAIN entries \cup DOMAIN hist.removed) \ {q} |->
                          IF k \in DOMAIN entries THEN entries[k] ELSE hist.removed[k]]
        IN  /\ hist.count_before > 0 => q \in DOMAIN entries
            /\ Cardinality(DOMAIN others) < max_entries => q \in DOMAIN entries
            /\ (\E k \in DOMAIN others :
                   calculate_score(others[k], hist.at) < calculate_score(created, hist.at))
                  => q \in DOMAIN entries
            /\ q \in DOMAIN hist.removed =>
                  (hist.count_before = 0 /\ hist.removed[q] = created)

C32_Witness ==
    /\ hist.op = "record" /\ max_entries = 2
    /\ hist.query = <<".", "n", "b">> /\ hist.count_before = 0
    /\ DOMAIN hist.removed = {<<".", "n">>}
    /\ DOMAIN entries = {<<".", "n", "a">>, <<".", "n", "b">>}

\* C35 as claimed: every history entry is stored under its own query text,
\* which is non-blank, has count >= 1 and first_used <= last_used; while an
\* entry exists its first_used never changes and its count and last_used
\* never decrease.
C35_EntryInvariants ==
    /\ [](\A q \in DOMAIN entries :
             /\ entries[q].query = q
             /\ ~is_empty(trim(q))
             /\ entries[q].count >= 1
             /\ entries[q].first_used <= entries[q].last_used)
    /\ [][\A q \in DOMAIN entries \cap DOMAIN entries' :
             /\ entries'[q].first_used = entries[q].first_used
             /\ entries'[q].count >= entries[q].count
             /\ entries'[q].last_used >= entries[q].last_used]_vars

\* C35 as amended: every history entry is stored under its own query text,
\* which is non-blank, and has count >= 1; while an entry exists its
\* first_used never changes and its count never decreases; as long as the
\* system clock has not been set back, first_used <= last_used and last_used
\* never decreases.
C35_EntryInvariantsOnForwardClock ==
    /\ [](\A q \in DOMAIN entries :
             /\ entries[q].query = q
             /\ ~is_empty(trim(q))
             /\ entries[q].count >= 1
             /\ ~hist.set_back => entries[q].first_used <= entries[q].last_used)
    /\ [][\A q \in DOMAIN entries \cap DOMAIN entries' :
             /\ entries'[q].first_used = entries[q].first_used
             /\ entries'[q].count >= entries[q].count
             /\ ~hist'.set_back => entries'[q].last_used >= entries[q].last_used]_vars

C35_Witness ==
    /\ hist.op = "record" /\ ~hist.set_back
    /\ hist.query \in DOMAIN entries
    /\ hist.count_before = 1
    /\ entries[hist.query].count = 2
    /\ entries[hist.query].first_used < entries[hist.query].last_used

\* C33: events::update on App and EnhancedApp::update_with_action are the same
\* state machine: from the session an action finds, both have an arm for the
\* action, both leave the same input, scroll_offset, exit and last_error, and
\* both record the committed input in the history when update does.
C33_DispatchersAgree ==
    sc.op \in {"Quit", "Input", "Backspace", "Clear", "ScrollUp", "ScrollDown",
               "Tab", "None"} =>
        LET s == [input |-> sc.before.input, exit |-> sc.before.exit,
                  last_error |-> sc.before.last_error,
                  scroll_offset |-> sc.before.scroll_offset]
            r == enhanced_update_with_action(s, sc.op, sc.c, app_data, visible_height)
        IN  /\ r.handled
            /\ r.state.input = input
            /\ r.state.scroll_offset = scroll_offset
            /\ r.state.exit = exit
            /\ r.state.last_error = last_error
            /\ r.recorded <=> (sc.op = "Clear" /\ ~is_empty(trim(sc.before.input)))

\* C31: the document of the session is immutable: no edit of the input, no
\* content generation and no executor invocation, cached or not, changes it,
\* and the content generated for the empty input is the pretty-printed
\* document in every state, whatever was executed or cached before.
C31_DocumentImmutable ==
    /\ [][app_data' = app_data]_vars
    /\ []((view.op = "generate_current_content" /\ is_empty(view.input)) =>
             view.value = to_string_pretty(app_data))
    /\ [](generate_current_content(app_data, <<>>) = to_string_pretty(app_data)
          /\ enhanced_generate_current_content(cache, app_data, <<>>).value
               = to_string_pretty(app_data))

C31_Witness ==
    /\ view.op = "generate_current_content" /\ view.app = "EnhancedApp"
    /\ is_empty(view.input)
    /\ view.cache_before # EmptyMap
    /\ \E q \in CacheQueries : spy[<<app_data, q>>].calls > 0
    /\ app_data = Document

\* C37: CachedQueryExecutor::execute holds no borrow of its cache cell when it
\* takes the mutable borrow or while it calls the wrapped executor, so no
\* call panics on a conflicting RefCell borrow: not on a hit, a miss or a
\* failure, and not in decorators stacked on each other.
C37_NoConflictingBorrow ==
    /\ \A i \in 1..Len(frames) :
          /\ frames[i].pos # "panic"
          /\ frames[i].pos \in {"execute", "wait", "borrow_mut"} =>
                (cells[frames[i].layer].readers = 0 /\ ~cells[frames[i].layer].writer)
    /\ \A l \in 1..MaxDecorators :
          /\ cells[l].readers <= 1
          /\ ~(cells[l].writer /\ cells[l].readers > 0)

C37_Witness ==
    /\ Len(frames) = MaxDecorators
    /\ frames[1].pos = "wait"
    /\ Top.pos = "set" /\ cells[Top.layer].writer
    /\ cells[1].map # EmptyMap

\* C34: whenever Tab changes the input, the new input is the exact text of an
\* entry the history holds, the old input is a strict prefix of it, and it is
\* strictly longer than the old input; Tab never empties or shortens the
\* input.
C34_TabOnlyExtendsInput ==
    sc.op = "Tab" =>
        /\ input # sc.before.input =>
              /\ input \in DOMAIN entries
              /\ entries[input].query = input
              /\ starts_with(input, sc.before.input)
              /\ SubSeq(input, 1, Len(sc.before.input)) = sc.before.input
              /\ Len(input) > Len(sc.before.input)
              /\ len(input) > len(sc.before.input)
        /\ Len(input) >= Len(sc.before.input)
        /\ ~is_empty(sc.before.input) => ~is_empty(input)

C34_Witness ==
    /\ sc.op = "Tab"
    /\ sc.before.input = <<".", "a">> /\ input = <<".", "a", "a">>
    /\ DOMAIN entries = {<<".", "a">>, <<".", "a", "a">>}

\* C36: the history changes only in the step that handles Commit (Action::Clear)
\* on a non-blank input: no other action, no frame drawn from generated
\* content and no suggestion lookup changes the entries, their counts or
\* their timestamps; and the steps that handle ScrollUp and ScrollDown change
\* nothing of the session but scroll_offset.
C36_HistoryAndScrollFrames ==
    /\ [][entries' # entries =>
             /\ pc = "handle"
             /\ get_action(key_event).kind = "Clear"
             /\ ~is_empty(trim(input))]_vars
    /\ [][(pc = "handle" /\ get_action(key_event).kind \in {"ScrollUp", "ScrollDown"}) =>
             /\ input' = input
             /\ exit' = exit
             /\ last_error' = last_error
             /\ entries' = entries
             /\ UNCHANGED <<visible_height, app_data, max_entries>>]_vars

C36_Witness ==
    /\ sc.op = "ScrollDown"
    /\ sc.before.scroll_offset = 0 /\ scroll_offset = 1
    /\ entries # EmptyMap /\ entries = sc.before.entries
    /\ view.op = "draw" /\ pc = "read"

\* C38: Input(c) followed immediately by Backspace leaves the input exactly as
\* Input(c) found it, for every input and every character c, of one byte or
\* of several, and leaves scroll_offset at 0.
C38_InputThenBackspaceRestores ==
    (sc.op = "Backspace" /\ sc.after_input) =>
        /\ input = sc.before_input.input
        /\ as_bytes(input) = as_bytes(sc.before_input.input)
        /\ sc.before.input = push_char(sc.before_input.input, sc.typed)
        /\ scroll_offset = 0

C38_Witness ==
    /\ sc.op = "Backspace" /\ sc.after_input
    /\ sc.typed = "U+1F600"
    /\ sc.before_input.input = <<"é">> /\ input = <<"é">>
    /\ sc.before.input = <<"é", "U+1F600">>
    /\ scroll_offset = 0

\* C7 as claimed: a text recorded N times has an entry with count N.
C7_CountEqualsTimesRecorded ==
    \A q \in NonBlank :
        hist.times[q] > 0 => (q \in DOMAIN entries /\ entries[q].count = hist.times[q])

\* C7 as amended: a text recorded N times whose entry was never evicted has an
\* entry with count N; a record that finds no entry leaves one with count 1, a
\* record that finds one adds exactly 1 to its count, and every entry is filed
\* under its own text, so no text has two entries.
C7_CountEqualsTimesUnlessEvicted ==
    /\ \A q \in NonBlank :
          (hist.times[q] > 0 /\ q \notin hist.lost) =>
              (q \in DOMAIN entries /\ entries[q].count = hist.times[q])
    /\ (hist.op = "record" /\ hist.query \in DOMAIN entries) =>
          entries[hist.query].count = hist.count_before + 1
    /\ \A q \in DOMAIN entries : entries[q].query = q

C7_Witness ==
    /\ hist.op = "record" /\ hist.query = <<".", "n">>
    /\ hist.times[<<".", "n">>] = 2 /\ hist.lost = {}
    /\ hist.count_before = 1
    /\ <<".", "n">> \in DOMAIN entries /\ entries[<<".", "n">>].count = 2
    /\ Cardinality(DOMAIN entries) = 2

\* C8: the history never holds more than max_entries entries; once more than
\* max_entries distinct texts have been recorded it holds exactly max_entries;
\* an entry evicted by a record_query call scored, at that call, no higher than
\* any entry the call kept.
C8_EvictionKeepsCapacity ==
    /\ Cardinality(DOMAIN entries) <= max_entries
    /\ Cardinality({q \in NonBlank : hist.times[q] > 0}) > max_entries =>
          Cardinality(DOMAIN entries) = max_entries
    /\ hist.op = "record" =>
          \A r \in DOMAIN hist.removed, k \in DOMAIN entries :
              calculate_score(hist.removed[r], hist.at)
                <= calculate_score(entries[k], hist.at)

C8_Witness ==
    /\ hist.op = "record" /\ max_entries = 2
    /\ Cardinality({q \in NonBlank : hist.times[q] > 0}) = 3
    /\ Cardinality(DOMAIN entries) = 2
    /\ \E r \in DOMAIN hist.removed : \A k \in DOMAIN entries :
          calculate_score(hist.removed[r], hist.at)
            < calculate_score(entries[k], hist.at)

\* C9 as claimed: get_suggestions returns nothing for a prefix of fewer than 2
\* characters.
C9_ShortPrefixNoSuggestions ==
    (sugg.called /\ Len(sugg.prefix) < 2) => sugg.result = <<>>

C11_SuggestionsRankedAndTruncated ==
    sugg.called =>
        LET r == sugg.result
            texts == {r[i].text : i \in 1..Len(r)}
            matching == {q \in DOMAIN entries :
                           starts_with(q, sugg.prefix) /\ q # sugg.prefix}
        IN  /\ Len(r) <= sugg.limit
            /\ sugg.limit = 0 => r = <<>>
            /\ \A i \in 1..(Len(r) - 1) : r[i].score >= r[i + 1].score
            /\ \A i \in 1..Len(r) :
                  /\ r[i].text \in DOMAIN entries
                  /\ r[i].score = calculate_score(entries[r[i].text], now)
            /\ \A q \in matching \ texts, i \in 1..Len(r) :
                  calculate_score(entries[q], now) <= r[i].score

C11_Witness ==
    /\ sugg.called /\ sugg.prefix = <<"é", "n">> /\ sugg.limit = 1
    /\ DOMAIN entries = {<<"é", "n", "a">>, <<"é", "n", "b">>}
    /\ entries[<<"é", "n", "a">>].count = 1
    /\ entries[<<"é", "n", "b">>].count = 2
    /\ Len(sugg.result) = 1 /\ sugg.result[1].text = <<"é", "n", "b">>

\* C2: from offset 0, n scroll_down_bounded(T, V) calls leave the offset at
\* min(n, max(0, T - V)): one step per call up to the maximum, then no change; the
\* offset never exceeds the maximum, stays 0 when T <= V, and (10, 3) ends at 7.
C2_ScrollDownConverges ==
    LET max_scroll == Max(0, sc.total - sc.height)
    IN  /\ scroll_offset <= max_scroll
        /\ sc.pure => scroll_offset = Min(sc.downs, max_scroll)
        /\ sc.total <= sc.height => scroll_offset = 0
        /\ (sc.pure /\ sc.total = 10 /\ sc.height = 3 /\ sc.downs = 10)
              => scroll_offset = 7

C2_Witness ==
    /\ sc.pure /\ sc.total = 10 /\ sc.height = 3 /\ sc.downs = 10
    /\ scroll_offset = 7

\* C3: scroll_up takes 1 off a positive offset and leaves 0 at 0; the offset is
\* never negative; a scroll_down_bounded that moved the offset, followed by
\* scroll_up, is back at the offset before the two calls.
C3_ScrollUpFloorsAtZero ==
    /\ scroll_offset >= 0
    /\ sc.op = "up" =>
          scroll_offset = (IF sc.prev > 0 THEN sc.prev - 1 ELSE 0)
    /\ (sc.op = "up" /\ sc.op2 = "down" /\ sc.prev # sc.prev2) =>
          scroll_offset = sc.prev2

C3_Witness ==
    /\ sc.op = "up" /\ sc.op2 = "down"
    /\ sc.prev = 4 /\ sc.prev2 = 3 /\ scroll_offset = 3

====
